---- MODULE Spec2Model ----
(***************************************************************************)
(* Themisto coloring layer: the sdsl-hybrid Color_Set / Color_Set_View,    *)
(* the concatenated Color_Set_Storage, and the Coloring facade.            *)
(* C++ containers are 0-indexed; sequences here are 1-indexed, so element  *)
(* i of a container c is c[i+1].                                           *)
(***************************************************************************)
EXTENDS Integers, Sequences, FiniteSets, TLC

\* ---------------------------------------------------------------- bounds
MaxColor == 3
MaxSets == 2
MaxPrepare == 2

VARIABLES
    storage,        \* the Color_Set_Storage<Color_Set, Color_Set_View> object
    added,          \* history: the vectors add_set was called with, in order
    prepare_calls,  \* history: number of prepare_for_queries calls so far
    owned,          \* an owned Color_Set (query-time scratch set)
    last,           \* history: the last operation applied to owned and its operands
    crashed,        \* the process died on an invalid memory read
    frozen,         \* history: the sets the storage returned at the first freeze
    index,          \* the k-mer index (SBWT) the coloring belongs to
    seqfiles,           \* the reference sequences given to the builder
    colorfile,     \* the color of each reference, from the metadata stream
    config,         \* Build_Config: color set type and sampling distance
    built,          \* the Coloring object build_coloring has filled
    file,           \* the archive on disk: the items written, in order
    ld,             \* result of the last load_coloring: outcome, output variant, attempts
    q,              \* the running get_color_set_of_node query
    converted,      \* the Coloring build_from_index has made and its archive
    readers,        \* the concurrent readers of the loaded Coloring
    color_stream,   \* the Metadata_Stream object the build has made
    colorfiles,     \* the color files on disk: for each file its lines
    returned,       \* history: the outcome of every next() call, in order
    dispatch        \* the run of the builder's sequence loop over the stream

vars == <<storage, added, prepare_calls, owned, last, crashed, frozen,
          index, seqfiles, colorfile, config, built, file, ld, q, converted, readers,
          color_stream, colorfiles, returned, dispatch>>

coloring_vars == <<index, seqfiles, colorfile, config, built, file, ld, q, converted, readers>>

storage_vars == <<storage, added, prepare_calls, owned, last, crashed, frozen>>

stream_vars == <<color_stream, colorfiles, returned, dispatch>>

\* no color stream has been made yet
NoStream ==
    /\ color_stream = [kind |-> "none"]
    /\ colorfiles = <<>>
    /\ returned = <<>>
    /\ dispatch = [status |-> "none"]

Colors == 0..MaxColor

\* ------------------------------------------------------- generic helpers
Min2(a, b) == IF a < b THEN a ELSE b

Max2(a, b) == IF a > b THEN a ELSE b

SetMax(S) == CHOOSE x \in S : \A y \in S : y <= x

SetMin(S) == CHOOSE x \in S : \A y \in S : x <= y

Range(s) == {s[i] : i \in 1..Len(s)}

RECURSIVE SortedSeq(_)
SortedSeq(S) == IF S = {} THEN <<>> ELSE <<SetMin(S)>> \o SortedSeq(S \ {SetMin(S)})

RECURSIVE Pow(_, _)
Pow(b, e) == IF e = 0 THEN 1 ELSE b * Pow(b, e - 1)

\* The vectors handed to add_set and to the Color_Set constructor: strictly
\* ascending vectors of distinct colors ("Set must be sorted").
Vectors == {SortedSeq(S) : S \in SUBSET Colors}

NonEmptyVectors == Vectors \ {<<>>}

\* std::max_element over a non-empty vector
max_element(v) == SetMax(Range(v))

\* ------------------------------------------------ representation cutoff
\* `log2(max_element) * set.size() > max_element`, evaluated in doubles.
\* For integers m >= 1 and n >= 0 the test n*log2(m) > m is m^n > 2^m
\* (equality needs m to be a power of two, where log2 is exact); for m = 0
\* log2 is -inf and the product is -inf or NaN, so the test is false, as is
\* 0^n > 1.
\* A negative m makes log2 NaN and the test false.
DenseCutoff(m, n) == IF m <= 0 THEN FALSE ELSE Pow(m, n) > Pow(2, m)

\* ------------------------------------------------- Color_Set(_View) reads
\* A color set is [is_bitmap, data, start, length]: data is the container
\* data_ptr points to (a bit vector as a sequence of 0/1, or an int vector).
colorset_is_empty(cs) == cs.length = 0

\* variant of the test that takes every set for a bitmap
colorset_is_bitmap_always(cs) == cs.is_bitmap \/ cs.length >= 0

colorset_is_bitmap(cs) == cs.is_bitmap

colorset_access_bitmap(cs, idx) == cs.data[cs.start + idx + 1]

colorset_access_array(cs, idx) == cs.data[cs.start + idx + 1]

colorset_size(cs) ==
    IF colorset_is_bitmap(cs)
    THEN Cardinality({i \in 0..(cs.length - 1) : colorset_access_bitmap(cs, i) = 1})
    ELSE cs.length

colorset_get_colors_as_vector(cs) ==
    IF colorset_is_bitmap(cs)
    THEN SelectSeq([i \in 1..cs.length |-> i - 1],
                   LAMBDA i : colorset_access_bitmap(cs, i) = 1)
    ELSE [i \in 1..cs.length |-> colorset_access_array(cs, i - 1)]

colorset_contains(cs, color) ==
    IF colorset_is_bitmap(cs)
    THEN IF color >= cs.length THEN FALSE
         ELSE colorset_access_bitmap(cs, color) = 1
    ELSE \E i \in 0..(cs.length - 1) : colorset_access_array(cs, i) = color

\* Color_Set() : an empty bit vector
Color_Set_default == [is_bitmap |-> TRUE, data |-> <<>>, start |-> 0, length |-> 0]

\* variant of the constructor whose bitmap has max_element bits instead of max_element+1
Color_Set_from_vector_short(set) ==
    LET m == max_element(set) IN
    IF DenseCutoff(m, Len(set))
    THEN [is_bitmap |-> TRUE,
          data |-> [i \in 1..m |-> IF (i - 1) \in Range(set) THEN 1 ELSE 0],
          start |-> 0, length |-> m]
    ELSE [is_bitmap |-> FALSE, data |-> set, start |-> 0, length |-> Len(set)]

\* Color_Set(const vector<int64_t>& set), set non-empty
Color_Set_from_vector(set) ==
    LET m == max_element(set) IN
    IF DenseCutoff(m, Len(set))
    THEN [is_bitmap |-> TRUE,
          data |-> [i \in 1..(m + 1) |-> IF (i - 1) \in Range(set) THEN 1 ELSE 0],
          start |-> 0, length |-> m + 1]
    ELSE [is_bitmap |-> FALSE, data |-> set, start |-> 0, length |-> Len(set)]

\* Color_Set(const Color_Set_View& view): copies the span of the view
Color_Set_from_view(view) ==
    [is_bitmap |-> view.is_bitmap,
     data |-> [i \in 1..view.length |-> view.data[view.start + i]],
     start |-> 0, length |-> view.length]

\* Color_Set_View(const Color_Set& cs): a view of the whole owned set
Color_Set_View_of(cs) ==
    [is_bitmap |-> cs.is_bitmap, data |-> cs.data, start |-> cs.start, length |-> cs.length]

\* ------------------------------------------------- intersection kernels
\* Each kernel returns the container after the in-place write and the new
\* logical length; the container is never resized.
bitmap_vs_bitmap_intersection(A, A_size, B, B_start, B_size) ==
    LET n == Min2(A_size, B_size) IN
    [data |-> [i \in 1..Len(A) |-> IF i <= n THEN A[i] * B[B_start + i] ELSE A[i]],
     len |-> n]

array_vs_bitmap_intersection(iv, iv_size, bv, bv_start, bv_size) ==
    LET kept == SelectSeq(SubSeq(iv, 1, iv_size),
                          LAMBDA x : x < bv_size /\ bv[bv_start + x + 1] = 1) IN
    [data |-> [i \in 1..Len(iv) |-> IF i <= Len(kept) THEN kept[i] ELSE iv[i]],
     len |-> Len(kept)]

\* linear merge of A[0..A_len) with B[B_start..B_start+B_len), both sorted
RECURSIVE MergeIntersect(_, _, _, _, _, _, _)
MergeIntersect(A, i, A_len, B, j, B_end, acc) ==
    IF i >= A_len \/ j >= B_end THEN acc
    ELSE IF A[i + 1] < B[j + 1] THEN MergeIntersect(A, i + 1, A_len, B, j, B_end, acc)
    ELSE IF A[i + 1] > B[j + 1] THEN MergeIntersect(A, i, A_len, B, j + 1, B_end, acc)
    ELSE MergeIntersect(A, i + 1, A_len, B, j + 1, B_end, Append(acc, A[i + 1]))

array_vs_array_intersection(A, A_len, B, B_start, B_len) ==
    LET kept == MergeIntersect(A, 0, A_len, B, B_start, B_start + B_len, <<>>) IN
    [data |-> [i \in 1..Len(A) |-> IF i <= Len(kept) THEN kept[i] ELSE A[i]],
     len |-> Len(kept)]

\* variant of intersection that stays a bitmap when the other set is an array:
\* the bits of this that are not in the array are cleared
Color_Set_intersection_keep(this, other) ==
    IF colorset_is_bitmap(this) /\ colorset_is_bitmap(other)
    THEN LET r == bitmap_vs_bitmap_intersection(this.data, this.length,
                                                other.data, other.start, other.length)
         IN [this EXCEPT !.data = r.data, !.length = r.len]
    ELSE IF ~colorset_is_bitmap(this) /\ colorset_is_bitmap(other)
    THEN LET r == array_vs_bitmap_intersection(this.data, this.length,
                                               other.data, other.start, other.length)
         IN [this EXCEPT !.data = r.data, !.length = r.len]
    ELSE IF colorset_is_bitmap(this) /\ ~colorset_is_bitmap(other)
    THEN [this EXCEPT !.data =
            [i \in 1..Len(this.data) |->
                IF \E j \in 1..other.length : other.data[other.start + j] = i - 1
                THEN this.data[i] ELSE 0]]
    ELSE LET r == array_vs_array_intersection(this.data, this.length,
                                              other.data, other.start, other.length)
         IN [this EXCEPT !.data = r.data, !.length = r.len]

\* Color_Set::intersection(const Color_Set_View& other)
Color_Set_intersection(this, other) ==
    IF colorset_is_bitmap(this) /\ colorset_is_bitmap(other)
    THEN LET r == bitmap_vs_bitmap_intersection(this.data, this.length,
                                                other.data, other.start, other.length)
         IN [this EXCEPT !.data = r.data, !.length = r.len]
    ELSE IF ~colorset_is_bitmap(this) /\ colorset_is_bitmap(other)
    THEN LET r == array_vs_bitmap_intersection(this.data, this.length,
                                               other.data, other.start, other.length)
         IN [this EXCEPT !.data = r.data, !.length = r.len]
    ELSE IF colorset_is_bitmap(this) /\ ~colorset_is_bitmap(other)
    THEN \* iv_copy is a copy of the whole container other.data_ptr points to;
         \* the kernel then treats iv_copy[0..other.length) as the array
         LET iv_copy == other.data
             r == array_vs_bitmap_intersection(iv_copy, other.length,
                                               this.data, this.start, this.length)
         IN [is_bitmap |-> FALSE, data |-> r.data, start |-> this.start, length |-> r.len]
    ELSE LET r == array_vs_array_intersection(this.data, this.length,
                                              other.data, other.start, other.length)
         IN [this EXCEPT !.data = r.data, !.length = r.len]

\* ------------------------------------------ Color_Set_Storage (sdsl-hybrid)
\* Number of bits required to represent x
RECURSIVE bit_width(_)
bit_width(x) == IF x = 0 THEN 0 ELSE 1 + bit_width(x \div 2)

bits_needed(x) == Max2(bit_width(x), 1)

to_sdsl_bit_vector(v) == v

\* an int_vector of width bits_needed(max): every element is stored modulo 2^width
to_sdsl_int_vector(v) ==
    IF Len(v) = 0 THEN <<>>
    ELSE LET w == bits_needed(max_element(v)) IN [i \in 1..Len(v) |-> v[i] % Pow(2, w)]

\* sdsl::util::init_support(rs, &bv): the table of prefix popcounts
init_support(bv) == [i \in 1..(Len(bv) + 1) |-> Cardinality({j \in 1..(i - 1) : bv[j] = 1})]

\* rank_support_v5::rank(i): number of 1 bits in positions [0, i)
rank(rs, i) == rs[i + 1]

Color_Set_Storage_default ==
    [bitmap_concat |-> <<>>, bitmap_starts |-> <<>>,
     arrays_concat |-> <<>>, arrays_starts |-> <<>>,
     is_bitmap_marks |-> <<>>, is_bitmap_marks_rs |-> <<>>,
     temp_bitmap_concat |-> <<>>, temp_arrays_concat |-> <<>>,
     temp_bitmap_starts |-> <<>>, temp_arrays_starts |-> <<>>,
     temp_is_bitmap_marks |-> <<>>]

number_of_sets_stored(st) == Len(st.is_bitmap_marks)

\* variant of the lookup whose array views forget the start offset
get_color_set_by_id_nostart(st, id) ==
    IF st.is_bitmap_marks[id + 1] = 1
    THEN LET bitmap_idx == rank(st.is_bitmap_marks_rs, id)
             start == st.bitmap_starts[bitmap_idx + 1]
             end == st.bitmap_starts[bitmap_idx + 2]
         IN [is_bitmap |-> TRUE, data |-> st.bitmap_concat,
             start |-> start, length |-> end - start]
    ELSE LET arrays_idx == id - rank(st.is_bitmap_marks_rs, id)
             start == st.arrays_starts[arrays_idx + 1]
             end == st.arrays_starts[arrays_idx + 2]
         IN [is_bitmap |-> FALSE, data |-> st.arrays_concat,
             start |-> 0, length |-> end - start]

get_color_set_by_id(st, id) ==
    IF st.is_bitmap_marks[id + 1] = 1
    THEN LET bitmap_idx == rank(st.is_bitmap_marks_rs, id)
             start == st.bitmap_starts[bitmap_idx + 1]
             end == st.bitmap_starts[bitmap_idx + 2]
         IN [is_bitmap |-> TRUE, data |-> st.bitmap_concat,
             start |-> start, length |-> end - start]
    ELSE LET arrays_idx == id - rank(st.is_bitmap_marks_rs, id)
             start == st.arrays_starts[arrays_idx + 1]
             end == st.arrays_starts[arrays_idx + 2]
         IN [is_bitmap |-> FALSE, data |-> st.arrays_concat,
             start |-> start, length |-> end - start]

\* add_set with max_element already read: mx is *std::max_element(...)
add_set_with_max(st, set, mx) ==
    IF DenseCutoff(mx, Len(set))
    THEN [st EXCEPT
            !.temp_is_bitmap_marks = Append(@, 1),
            !.temp_bitmap_starts = Append(@, Len(st.temp_bitmap_concat)),
            !.temp_bitmap_concat =
                @ \o [i \in 1..(mx + 1) |-> IF (i - 1) \in Range(set) THEN 1 ELSE 0]]
    ELSE [st EXCEPT
            !.temp_is_bitmap_marks = Append(@, 0),
            !.temp_arrays_starts = Append(@, Len(st.temp_arrays_concat)),
            !.temp_arrays_concat = @ \o set]

\* variant of prepare_for_queries that does not add the start one past the end
\* of the arrays
Storage_prepare_for_queries_nosentinel(st) ==
    LET starts_b == Append(st.temp_bitmap_starts, Len(st.temp_bitmap_concat))
        starts_a == st.temp_arrays_starts
    IN [bitmap_concat |-> to_sdsl_bit_vector(st.temp_bitmap_concat),
        bitmap_starts |-> to_sdsl_int_vector(starts_b),
        arrays_concat |-> to_sdsl_int_vector(st.temp_arrays_concat),
        arrays_starts |-> to_sdsl_int_vector(starts_a),
        is_bitmap_marks |-> to_sdsl_bit_vector(st.temp_is_bitmap_marks),
        is_bitmap_marks_rs |-> init_support(to_sdsl_bit_vector(st.temp_is_bitmap_marks)),
        temp_bitmap_concat |-> <<>>, temp_arrays_concat |-> <<>>,
        temp_bitmap_starts |-> <<>>, temp_arrays_starts |-> <<>>,
        temp_is_bitmap_marks |-> <<>>]

Storage_prepare_for_queries(st) ==
    LET starts_b == Append(st.temp_bitmap_starts, Len(st.temp_bitmap_concat))
        starts_a == Append(st.temp_arrays_starts, Len(st.temp_arrays_concat))
    IN [bitmap_concat |-> to_sdsl_bit_vector(st.temp_bitmap_concat),
        bitmap_starts |-> to_sdsl_int_vector(starts_b),
        arrays_concat |-> to_sdsl_int_vector(st.temp_arrays_concat),
        arrays_starts |-> to_sdsl_int_vector(starts_a),
        is_bitmap_marks |-> to_sdsl_bit_vector(st.temp_is_bitmap_marks),
        is_bitmap_marks_rs |-> init_support(to_sdsl_bit_vector(st.temp_is_bitmap_marks)),
        temp_bitmap_concat |-> <<>>, temp_arrays_concat |-> <<>>,
        temp_bitmap_starts |-> <<>>, temp_arrays_starts |-> <<>>,
        temp_is_bitmap_marks |-> <<>>]

\* union_buffers(buf1, len1, buf2, len2, result_buf): merges two sorted buffers
\* of distinct elements, keeping one copy of an element present in both
RECURSIVE union_buffers(_, _, _, _, _, _, _)
union_buffers(buf1, i, len1, buf2, j, len2, result_buf) ==
    IF i >= len1 /\ j >= len2 THEN result_buf
    ELSE IF i >= len1
         THEN union_buffers(buf1, i, len1, buf2, j + 1, len2, Append(result_buf, buf2[j + 1]))
    ELSE IF j >= len2
         THEN union_buffers(buf1, i + 1, len1, buf2, j, len2, Append(result_buf, buf1[i + 1]))
    ELSE IF buf1[i + 1] < buf2[j + 1]
         THEN union_buffers(buf1, i + 1, len1, buf2, j, len2, Append(result_buf, buf1[i + 1]))
    ELSE IF buf1[i + 1] > buf2[j + 1]
         THEN union_buffers(buf1, i, len1, buf2, j + 1, len2, Append(result_buf, buf2[j + 1]))
    ELSE union_buffers(buf1, i + 1, len1, buf2, j + 1, len2, Append(result_buf, buf1[i + 1]))

\* the vector AB that Color_Set::do_union hands to the constructor
union_vector(this, other) ==
    LET A == colorset_get_colors_as_vector(this)
        B == colorset_get_colors_as_vector(other)
    IN union_buffers(A, 0, Len(A), B, 0, Len(B), <<>>)

\* *std::max_element(set.begin(), set.end()): for an empty vector this
\* dereferences end(), which either faults or yields an arbitrary value.
GarbageValues == {-1} \cup Colors

\* chain: the colors the owned set must hold by set algebra, i.e. its contents
\* when the current run of intersections began, intersected with every B since
NoOp == [op |-> "none", V |-> <<>>, A0 |-> {}, B |-> {}, Abm |-> FALSE, Bbm |-> FALSE,
         Bstart |-> 0, chain |-> {}]

Init ==
    /\ storage = Color_Set_Storage_default
    /\ added = <<>>
    /\ prepare_calls = 0
    /\ owned = Color_Set_default
    /\ last = NoOp
    /\ crashed = FALSE
    /\ frozen = [done |-> FALSE, sets |-> <<>>]
    /\ index = [N |-> 0]
    /\ seqfiles = <<>>
    /\ colorfile = <<>>
    /\ config = [coloring_structure_type |-> "none"]
    /\ built = [T |-> "none"]
    /\ file = <<>>
    /\ ld = [outcome |-> "none"]
    /\ q = [status |-> "idle"]
    /\ converted = [T |-> "none"]
    /\ readers = <<>>
    /\ NoStream

\* The storage operations and the operations on the scratch set touch disjoint
\* state, so their interleavings commute; the storage operations are explored
\* before the first scratch operation only.
ScratchUntouched == last.op = "none"

\* Color_Set_Storage::add_set(set)
add_set(set) ==
    /\ ~crashed
    /\ ScratchUntouched
    /\ Len(added) < MaxSets
    /\ IF set = <<>>
       THEN \/ /\ crashed' = TRUE
               /\ UNCHANGED <<storage, added>>
            \/ /\ \E mx \in GarbageValues : storage' = add_set_with_max(storage, set, mx)
               /\ added' = Append(added, set)
               /\ UNCHANGED crashed
       ELSE /\ storage' = add_set_with_max(storage, set, max_element(set))
            /\ added' = Append(added, set)
            /\ UNCHANGED crashed
    /\ UNCHANGED <<prepare_calls, owned, last, frozen>>
    /\ UNCHANGED coloring_vars
    /\ UNCHANGED stream_vars

\* what get_color_set_by_id returns for every id of a storage
StoredVectors(st) ==
    [i \in 1..number_of_sets_stored(st) |->
        colorset_get_colors_as_vector(get_color_set_by_id(st, i - 1))]

\* Color_Set_Storage::prepare_for_queries()
prepare_for_queries ==
    /\ ~crashed
    /\ ScratchUntouched
    /\ prepare_calls < MaxPrepare
    /\ storage' = Storage_prepare_for_queries(storage)
    /\ prepare_calls' = prepare_calls + 1
    /\ frozen' = IF frozen.done THEN frozen
                 ELSE [done |-> TRUE, sets |-> StoredVectors(Storage_prepare_for_queries(storage))]
    /\ UNCHANGED <<added, owned, last, crashed>>
    /\ UNCHANGED coloring_vars
    /\ UNCHANGED stream_vars

StoredIds == 0..(number_of_sets_stored(storage) - 1)

\* owned = Color_Set(set)
construct(set) ==
    /\ ~crashed
    /\ prepare_calls >= 1
    /\ IF set = <<>>
       THEN \/ /\ crashed' = TRUE
               /\ UNCHANGED <<owned, last>>
            \/ /\ owned' = [is_bitmap |-> FALSE, data |-> <<>>, start |-> 0, length |-> 0]
               /\ last' = [NoOp EXCEPT !.op = "construct", !.V = set, !.chain = Range(set)]
               /\ UNCHANGED crashed
       ELSE /\ owned' = Color_Set_from_vector(set)
            /\ last' = [NoOp EXCEPT !.op = "construct", !.V = set, !.chain = Range(set)]
            /\ UNCHANGED crashed
    /\ UNCHANGED <<storage, added, prepare_calls, frozen>>
    /\ UNCHANGED coloring_vars
    /\ UNCHANGED stream_vars

\* owned = Color_Set(storage.get_color_set_by_id(id))
copy_view(id) ==
    /\ ~crashed
    /\ id \in StoredIds
    /\ LET view == get_color_set_by_id(storage, id) IN
       /\ owned' = Color_Set_from_view(view)
       /\ last' = [NoOp EXCEPT !.op = "copy", !.V = colorset_get_colors_as_vector(view),
                                !.chain = Range(colorset_get_colors_as_vector(view))]
    /\ UNCHANGED <<storage, added, prepare_calls, crashed, frozen>>
    /\ UNCHANGED coloring_vars
    /\ UNCHANGED stream_vars

\* owned.intersection(storage.get_color_set_by_id(id))
intersection(id) ==
    /\ ~crashed
    /\ id \in StoredIds
    /\ LET other == get_color_set_by_id(storage, id) IN
       /\ owned' = Color_Set_intersection(owned, other)
       /\ last' = [op |-> "intersection", V |-> <<>>,
                   A0 |-> Range(colorset_get_colors_as_vector(owned)),
                   B |-> Range(colorset_get_colors_as_vector(other)),
                   Abm |-> colorset_is_bitmap(owned), Bbm |-> colorset_is_bitmap(other),
                   Bstart |-> other.start,
                   chain |-> last.chain \cap Range(colorset_get_colors_as_vector(other))]
    /\ UNCHANGED <<storage, added, prepare_calls, crashed, frozen>>
    /\ UNCHANGED coloring_vars
    /\ UNCHANGED stream_vars

\* Color_Set::operator=(const Color_Set& other): a copy of the whole container
\* other points to, entries past other.length included
Color_Set_assign(other) ==
    [is_bitmap |-> other.is_bitmap,
     data |-> [i \in 1..Len(other.data) |-> other.data[i]],
     start |-> other.start, length |-> other.length]

\* Color_Set copy; copy = owned; owned = copy, after an intersection
assign ==
    /\ ~crashed
    /\ last.op = "intersection"
    /\ owned' = Color_Set_assign(Color_Set_assign(owned))
    /\ last' = [last EXCEPT !.op = "assign"]
    /\ UNCHANGED <<storage, added, prepare_calls, crashed, frozen>>
    /\ UNCHANGED coloring_vars
    /\ UNCHANGED stream_vars

\* owned.do_union(storage.get_color_set_by_id(id)): *this = Color_Set(AB).
\* The constructor reads *max_element of AB, which is undefined for an empty AB.
do_union(id) ==
    /\ ~crashed
    /\ id \in StoredIds
    /\ LET other == get_color_set_by_id(storage, id)
           AB == union_vector(owned, other)
           done == [op |-> "union", V |-> AB,
                    A0 |-> Range(colorset_get_colors_as_vector(owned)),
                    B |-> Range(colorset_get_colors_as_vector(other)),
                    Abm |-> colorset_is_bitmap(owned), Bbm |-> colorset_is_bitmap(other),
                    Bstart |-> other.start, chain |-> Range(AB)]
       IN
       IF AB = <<>>
       THEN \/ /\ crashed' = TRUE
               /\ last' = [done EXCEPT !.op = "union_fault"]
               /\ UNCHANGED owned
            \/ /\ owned' = [is_bitmap |-> FALSE, data |-> <<>>, start |-> 0, length |-> 0]
               /\ last' = done
               /\ UNCHANGED crashed
       ELSE /\ owned' = Color_Set_from_vector(AB)
            /\ last' = done
            /\ UNCHANGED crashed
    /\ UNCHANGED <<storage, added, prepare_calls, frozen>>
    /\ UNCHANGED coloring_vars
    /\ UNCHANGED stream_vars

Next ==
    \/ \E set \in Vectors : add_set(set)
    \/ prepare_for_queries
    \/ \E set \in Vectors : construct(set)
    \/ \E id \in 0..(MaxSets - 1) : copy_view(id)
    \/ \E id \in 0..(MaxSets - 1) : intersection(id)
    \/ \E id \in 0..(MaxSets - 1) : do_union(id)
    \/ assign

Spec == Init /\ [][Next]_vars

\* =========================================================================
\* The k-mer index (SBWT) the coloring is attached to.  Characters are
\* strings; "$" pads the dummy nodes.  A k-mer is a sequence of K characters.
K == 2

Sigma == <<"$", "A", "C", "G", "T">>

DNA == {"A", "C", "G", "T"}

Ord(c) == CHOOSE i \in 1..Len(Sigma) : Sigma[i] = c

\* the reference sequences the builder can be run over
RefPool ==
    { <<"A", "C", "G", "T">>,
      <<"A", "C", "G">>,
      <<"C", "G", "T">>,
      <<"G", "T", "A", "C">>,
      <<"A", "C", "T">>,
      <<"A", "A", "A">>,
      <<"T", "A", "C", "G", "T">> }

MaxRefs == 2

RefLists == UNION {[1..n -> RefPool] : n \in 1..MaxRefs}

KmersOf(ref, k) == {SubSeq(ref, i, i + k - 1) : i \in 1..(Len(ref) - k + 1)}

KmerSet(refs, k) == UNION {KmersOf(refs[j], k) : j \in 1..Len(refs)}

\* colexicographic order: compare from the last character backwards
RECURSIVE ColexLess(_, _, _)
ColexLess(x, y, i) ==
    IF i = 0 THEN FALSE
    ELSE IF Ord(x[i]) # Ord(y[i]) THEN Ord(x[i]) < Ord(y[i])
    ELSE ColexLess(x, y, i - 1)

Suffix(x) == SubSeq(x, 2, Len(x))

Prefix(x) == SubSeq(x, 1, Len(x) - 1)

\* the all-$ root and the $-padded prefixes of the k-mers with no predecessor
DummyNodes(R, k) ==
    {[i \in 1..k |-> "$"]} \cup
    { [i \in 1..k |-> IF i <= k - n THEN "$" ELSE x[i - (k - n)]] :
          x \in {y \in R : ~\E z \in R : Suffix(z) = Prefix(y)}, n \in 0..(k - 1) }

NodeSet(R, k) == R \cup DummyNodes(R, k)

\* node id of a node label: its position in colexicographic order
NodeId(x, V) == Cardinality({y \in V : ColexLess(y, x, Len(x))})

NodeLabel(i, V) == CHOOSE x \in V : NodeId(x, V) = i

\* out-edge labels are stored at the first node of each suffix group only
FirstOfGroup(x, V) == ~\E y \in V : Suffix(y) = Suffix(x) /\ ColexLess(y, x, Len(x))

OutLabels(x, V) == {c \in DNA : Append(Suffix(x), c) \in V}

\* the index: N nodes, one bit vector per character, the C array
BuildIndex(R, k) ==
    LET V == NodeSet(R, k)
        N == Cardinality(V)
        lab == [i \in 0..(N - 1) |-> NodeLabel(i, V)]
        bits(c) == [i \in 1..N |->
                       IF FirstOfGroup(lab[i - 1], V) /\ c \in OutLabels(lab[i - 1], V)
                       THEN 1 ELSE 0]
    IN [k |-> k,
        N |-> N,
        label |-> lab,
        A_bits |-> bits("A"), C_bits |-> bits("C"),
        G_bits |-> bits("G"), T_bits |-> bits("T"),
        C_array |-> [j \in 1..4 |->
                        Cardinality({x \in V : Ord(x[k]) < Ord(Sigma[j + 1])})]]

\* subset_struct.rank(node, c): number of c-bits set strictly before node
subset_rank(bits, node) == Cardinality({j \in 1..node : bits[j] = 1})

\* ---------------------------------------------------- NodeToColorSetMap
\* Sparse_Uint_Array: a presence bit per node, rank support, packed values
Sparse_Uint_Array_default == [present |-> <<>>, present_rs |-> <<>>, values |-> <<>>]

has_index(m, node) == m.present[node + 1] = 1

Sparse_get(m, node) == m.values[rank(m.present_rs, node) + 1]

Sparse_serialize(m) == <<m.present, m.present_rs, m.values>>

Sparse_load(stream, pos) ==
    [val |-> [present |-> stream[pos + 1], present_rs |-> stream[pos + 2],
              values |-> stream[pos + 3]],
     pos |-> pos + 3]

\* ------------------------------------------- the other color set types
\* Roaring_Color_Set and Bit_Magic_Color_Set: library-backed sets of colors
Opaque_from_vector(set) == [colors |-> Range(set)]

Opaque_get_colors_as_vector(os) == SortedSeq(os.colors)

Opaque_serialize(os) == <<os.colors>>

Opaque_load(stream, pos) == [val |-> [colors |-> stream[pos + 1]], pos |-> pos + 1]

\* ------------------------------------ generic Color_Set_Storage<T, T>
Generic_Storage_default == [sets |-> <<>>]

\* variant of add_set that puts the new set in front of the stored ones
Generic_add_set_front(st, set) == [st EXCEPT !.sets = <<Opaque_from_vector(set)>> \o @]

\* add_set: sets.push_back(set)
Generic_add_set(st, set) == [st EXCEPT !.sets = Append(@, Opaque_from_vector(set))]

\* prepare_for_queries: sets.shrink_to_fit() leaves the elements as they are
Generic_prepare_for_queries(st) == [sets |-> [i \in 1..Len(st.sets) |-> st.sets[i]]]

Generic_get_color_set_by_id(st, id) == st.sets[id + 1]

Generic_number_of_sets_stored(st) == Len(st.sets)

RECURSIVE SerializeSets(_, _)
SerializeSets(sets, i) ==
    IF i >= Len(sets) THEN <<>>
    ELSE Opaque_serialize(sets[i + 1]) \o SerializeSets(sets, i + 1)

Generic_serialize(st) == <<Len(st.sets)>> \o SerializeSets(st.sets, 0)

RECURSIVE LoadSets(_, _, _, _)
LoadSets(stream, pos, n_sets, acc) ==
    IF Len(acc) >= n_sets THEN [val |-> [sets |-> acc], pos |-> pos]
    ELSE LET r == Opaque_load(stream, pos) IN
         LoadSets(stream, r.pos, n_sets, Append(acc, r.val))

Generic_load(stream, pos) == LoadSets(stream, pos + 1, stream[pos + 1], <<>>)

\* ----------------------------- Color_Set_Storage<Color_Set, ..>: archive
Storage_serialize(st) ==
    <<st.bitmap_concat, st.bitmap_starts, st.arrays_concat, st.arrays_starts,
      st.is_bitmap_marks, st.is_bitmap_marks_rs>>

Storage_load(st, stream, pos) ==
    [val |-> [st EXCEPT !.bitmap_concat = stream[pos + 1],
                        !.bitmap_starts = stream[pos + 2],
                        !.arrays_concat = stream[pos + 3],
                        !.arrays_starts = stream[pos + 4],
                        !.is_bitmap_marks = stream[pos + 5],
                        !.is_bitmap_marks_rs = stream[pos + 6]],
     pos |-> pos + 6]

\* ----------------------------------------------------------- Coloring<T>
\* T is the color set type the template is instantiated with.
ColorSetTypes == {"Color_Set", "Roaring_Color_Set", "Bit_Magic_Color_Set"}

Coloring_default(T) ==
    [T |-> T,
     sets |-> IF T = "Color_Set" THEN Color_Set_Storage_default ELSE Generic_Storage_default,
     node_id_to_color_set_id |-> Sparse_Uint_Array_default,
     largest_color_id |-> 0,
     total_color_set_length |-> 0]

\* Coloring::serialize: the items written to the stream, in order, or the
\* exception it throws
Coloring_serialize(col) ==
    LET body == (IF col.T = "Color_Set" THEN Storage_serialize(col.sets)
                 ELSE Generic_serialize(col.sets))
                \o Sparse_serialize(col.node_id_to_color_set_id)
                \o <<col.largest_color_id, col.total_color_set_length>>
    IN IF col.T = "Color_Set" THEN [outcome |-> "ok", stream |-> <<"sdsl-hybrid-v4">> \o body]
       ELSE IF col.T = "Roaring_Color_Set"
       THEN [outcome |-> "ok", stream |-> <<"roaring-v0">> \o body]
       ELSE IF col.T = "Bit_Magic_Color_Set"
       THEN [outcome |-> "ok", stream |-> <<"bitmagic-v0">> \o body]
       ELSE [outcome |-> "runtime_error", stream |-> <<>>]

\* Coloring::load reading the two counters in the opposite order
Coloring_load_swapped(col, stream) ==
    LET type_id == stream[1]
        wrong == [outcome |-> "WrongTemplateParameterException", val |-> col, pos |-> 1]
        sets == IF col.T = "Color_Set" THEN Storage_load(col.sets, stream, 1)
                ELSE Generic_load(stream, 1)
        map == Sparse_load(stream, sets.pos)
        loaded == [outcome |-> "ok",
                   val |-> [T |-> col.T,
                            sets |-> sets.val,
                            node_id_to_color_set_id |-> map.val,
                            largest_color_id |-> stream[map.pos + 2],
                            total_color_set_length |-> stream[map.pos + 1]],
                   pos |-> map.pos + 2]
    IN IF type_id = "sdsl-hybrid-v4"
       THEN IF col.T # "Color_Set" THEN wrong ELSE loaded
       ELSE IF type_id = "roaring-v0"
       THEN IF col.T # "Roaring_Color_Set" THEN wrong ELSE loaded
       ELSE IF type_id = "bitmagic-v0"
       THEN IF col.T # "Bit_Magic_Color_Set" THEN wrong ELSE loaded
       ELSE [outcome |-> "runtime_error", val |-> col, pos |-> 1]

\* Coloring::load with no error for a tag it does not know: every tag that is
\* not the one of this type counts as the wrong variant
Coloring_load_lenient(col, stream) ==
    LET type_id == stream[1]
        sets == IF col.T = "Color_Set" THEN Storage_load(col.sets, stream, 1)
                ELSE Generic_load(stream, 1)
        map == Sparse_load(stream, sets.pos)
    IN IF (type_id = "sdsl-hybrid-v4" /\ col.T = "Color_Set")
          \/ (type_id = "roaring-v0" /\ col.T = "Roaring_Color_Set")
          \/ (type_id = "bitmagic-v0" /\ col.T = "Bit_Magic_Color_Set")
       THEN [outcome |-> "ok",
             val |-> [T |-> col.T,
                      sets |-> sets.val,
                      node_id_to_color_set_id |-> map.val,
                      largest_color_id |-> stream[map.pos + 1],
                      total_color_set_length |-> stream[map.pos + 2]],
             pos |-> map.pos + 2]
       ELSE [outcome |-> "WrongTemplateParameterException", val |-> col, pos |-> 1]

\* Coloring::load(is, index): outcome, the object afterwards, items consumed
Coloring_load(col, stream) ==
    LET type_id == stream[1]
        wrong == [outcome |-> "WrongTemplateParameterException", val |-> col, pos |-> 1]
        sets == IF col.T = "Color_Set" THEN Storage_load(col.sets, stream, 1)
                ELSE Generic_load(stream, 1)
        map == Sparse_load(stream, sets.pos)
        loaded == [outcome |-> "ok",
                   val |-> [T |-> col.T,
                            sets |-> sets.val,
                            node_id_to_color_set_id |-> map.val,
                            largest_color_id |-> stream[map.pos + 1],
                            total_color_set_length |-> stream[map.pos + 2]],
                   pos |-> map.pos + 2]
    IN IF type_id = "sdsl-hybrid-v4"
       THEN IF col.T # "Color_Set" THEN wrong ELSE loaded
       ELSE IF type_id = "roaring-v0"
       THEN IF col.T # "Roaring_Color_Set" THEN wrong ELSE loaded
       ELSE IF type_id = "bitmagic-v0"
       THEN IF col.T # "Bit_Magic_Color_Set" THEN wrong ELSE loaded
       ELSE [outcome |-> "runtime_error", val |-> col, pos |-> 1]

\* is_core_kmer that finds no entry at any node
is_core_kmer_none(col, node) == FALSE

is_core_kmer(col, node) == has_index(col.node_id_to_color_set_id, node)

\* the loop body with a rank that counts the bit of the node itself
get_color_set_id_step_inclusive(col, idx, node) ==
    IF is_core_kmer(col, node)
    THEN [kind |-> "return", val |-> Sparse_get(col.node_id_to_color_set_id, node)]
    ELSE IF idx.A_bits[node + 1] = 1
    THEN [kind |-> "next", val |-> idx.C_array[1] + subset_rank(idx.A_bits, node + 1)]
    ELSE IF idx.C_bits[node + 1] = 1
    THEN [kind |-> "next", val |-> idx.C_array[2] + subset_rank(idx.C_bits, node + 1)]
    ELSE IF idx.G_bits[node + 1] = 1
    THEN [kind |-> "next", val |-> idx.C_array[3] + subset_rank(idx.G_bits, node + 1)]
    ELSE IF idx.T_bits[node + 1] = 1
    THEN [kind |-> "next", val |-> idx.C_array[4] + subset_rank(idx.T_bits, node + 1)]
    ELSE [kind |-> "throw", val |-> "BUG: dead end in get_color_set_id"]

\* the loop body that hands back an id at a dead end instead of throwing
get_color_set_id_step_silent(col, idx, node) ==
    IF is_core_kmer(col, node)
    THEN [kind |-> "return", val |-> Sparse_get(col.node_id_to_color_set_id, node)]
    ELSE IF idx.A_bits[node + 1] = 1
    THEN [kind |-> "next", val |-> idx.C_array[1] + subset_rank(idx.A_bits, node)]
    ELSE IF idx.C_bits[node + 1] = 1
    THEN [kind |-> "next", val |-> idx.C_array[2] + subset_rank(idx.C_bits, node)]
    ELSE IF idx.G_bits[node + 1] = 1
    THEN [kind |-> "next", val |-> idx.C_array[3] + subset_rank(idx.G_bits, node)]
    ELSE IF idx.T_bits[node + 1] = 1
    THEN [kind |-> "next", val |-> idx.C_array[4] + subset_rank(idx.T_bits, node)]
    ELSE [kind |-> "return", val |-> 0]

\* the loop that also ends at a node without outgoing edge, so that the map
\* is read there whether or not the node has an entry
get_color_set_id_step_unchecked(col, idx, node) ==
    IF is_core_kmer(col, node)
    THEN [kind |-> "return", val |-> Sparse_get(col.node_id_to_color_set_id, node)]
    ELSE IF idx.A_bits[node + 1] = 1
    THEN [kind |-> "next", val |-> idx.C_array[1] + subset_rank(idx.A_bits, node)]
    ELSE IF idx.C_bits[node + 1] = 1
    THEN [kind |-> "next", val |-> idx.C_array[2] + subset_rank(idx.C_bits, node)]
    ELSE IF idx.G_bits[node + 1] = 1
    THEN [kind |-> "next", val |-> idx.C_array[3] + subset_rank(idx.G_bits, node)]
    ELSE IF idx.T_bits[node + 1] = 1
    THEN [kind |-> "next", val |-> idx.C_array[4] + subset_rank(idx.T_bits, node)]
    ELSE LET m == col.node_id_to_color_set_id
             r == rank(m.present_rs, node) IN
         [kind |-> "return", val |-> IF r < Len(m.values) THEN m.values[r + 1] ELSE -1]

\* one iteration of the loop of get_color_set_id at `node`
get_color_set_id_step(col, idx, node) ==
    IF is_core_kmer(col, node)
    THEN [kind |-> "return", val |-> Sparse_get(col.node_id_to_color_set_id, node)]
    ELSE IF idx.A_bits[node + 1] = 1
    THEN [kind |-> "next", val |-> idx.C_array[1] + subset_rank(idx.A_bits, node)]
    ELSE IF idx.C_bits[node + 1] = 1
    THEN [kind |-> "next", val |-> idx.C_array[2] + subset_rank(idx.C_bits, node)]
    ELSE IF idx.G_bits[node + 1] = 1
    THEN [kind |-> "next", val |-> idx.C_array[3] + subset_rank(idx.G_bits, node)]
    ELSE IF idx.T_bits[node + 1] = 1
    THEN [kind |-> "next", val |-> idx.C_array[4] + subset_rank(idx.T_bits, node)]
    ELSE [kind |-> "throw", val |-> "BUG: dead end in get_color_set_id"]

\* get_color_set_id(node) run to completion; "diverges" when the loop has
\* taken more iterations than there are nodes
RECURSIVE get_color_set_id(_, _, _, _)
get_color_set_id(col, idx, node, iterations) ==
    LET r == get_color_set_id_step(col, idx, node) IN
    IF r.kind = "next"
    THEN IF iterations >= idx.N THEN [kind |-> "diverges", val |-> node]
         ELSE get_color_set_id(col, idx, r.val, iterations + 1)
    ELSE r

\* get_color_set_by_color_set_id(id).get_colors_as_vector()
get_color_set_as_vector_by_color_set_id(col, color_set_id) ==
    IF color_set_id = -1 THEN [kind |-> "throw", val |-> "BUG: Tried to access a color set with id -1"]
    ELSE [kind |-> "return",
          val |-> IF col.T = "Color_Set"
                  THEN colorset_get_colors_as_vector(get_color_set_by_id(col.sets, color_set_id))
                  ELSE Opaque_get_colors_as_vector(
                           Generic_get_color_set_by_id(col.sets, color_set_id))]

\* get_color_set_of_node(node).get_colors_as_vector()
get_color_set_of_node_as_vector(col, idx, node) ==
    LET id == get_color_set_id(col, idx, node, 0) IN
    IF id.kind = "return" THEN get_color_set_as_vector_by_color_set_id(col, id.val)
    ELSE id

largest_color(col) == col.largest_color_id

number_of_distinct_color_sets(col) ==
    IF col.T = "Color_Set" THEN number_of_sets_stored(col.sets)
    ELSE Generic_number_of_sets_stored(col.sets)

sum_of_all_distinct_color_set_lengths(col) == col.total_color_set_length

\* ------------------------------------------------------ Coloring_Builder
\* The graph the builder sees: nodes by label, edges by (k-1)-overlap.
AllNodes(idx) == 0..(idx.N - 1)

RealNodes(idx) == {v \in AllNodes(idx) : \A i \in 1..idx.k : idx.label[v][i] # "$"}

Successors(idx, v) ==
    {w \in AllNodes(idx) : /\ Prefix(idx.label[w]) = Suffix(idx.label[v])
                           /\ idx.label[w][idx.k] # "$"}

SuffixGroup(idx, v) == {w \in AllNodes(idx) : Suffix(idx.label[w]) = Suffix(idx.label[v])}

\* the colors of the references that contain the k-mer of node v
NodeColors(idx, refs, colors, v) ==
    {colors[j] : j \in {i \in 1..Len(refs) : idx.label[v] \in KmersOf(refs[i], idx.k)}}

\* nodes that must store a color set id whatever the sampling distance
MandatoryCore(idx, refs, colors) ==
    {v \in RealNodes(idx) :
        \/ Cardinality(SuffixGroup(idx, v)) > 1
        \/ Cardinality(Successors(idx, v)) # 1
        \/ \E w \in Successors(idx, v) :
               NodeColors(idx, refs, colors, w) # NodeColors(idx, refs, colors, v)}

RECURSIVE ReachesWithin(_, _, _, _)
ReachesWithin(idx, S, v, n) ==
    \/ v \in S
    \/ /\ n > 0
       /\ \E w \in Successors(idx, v) : ReachesWithin(idx, S, w, n - 1)

\* the sets of nodes the builder may give an entry for sampling distance d
CoreChoices(idx, refs, colors, d) ==
    {S \in SUBSET RealNodes(idx) :
        /\ MandatoryCore(idx, refs, colors) \subseteq S
        /\ \A v \in RealNodes(idx) : ReachesWithin(idx, S, v, d - 1)}

\* distinct color vectors in the order their first node comes
RECURSIVE DistinctVectors(_, _, _, _, _, _)
DistinctVectors(idx, refs, colors, S, v, acc) ==
    IF v >= idx.N THEN acc
    ELSE LET vec == SortedSeq(NodeColors(idx, refs, colors, v)) IN
         DistinctVectors(idx, refs, colors, S, v + 1,
                         IF v \in S /\ vec \notin Range(acc) THEN Append(acc, vec) ELSE acc)

ColorSetIdOf(vecs, vec) == (CHOOSE i \in 1..Len(vecs) : vecs[i] = vec) - 1

RECURSIVE AddSets(_, _, _)
AddSets(st, vecs, i) ==
    IF i > Len(vecs) THEN st
    ELSE AddSets(add_set_with_max(st, vecs[i], max_element(vecs[i])), vecs, i + 1)

RECURSIVE GenericAddSets(_, _, _)
GenericAddSets(st, vecs, i) ==
    IF i > Len(vecs) THEN st
    ELSE GenericAddSets(Generic_add_set(st, vecs[i]), vecs, i + 1)

RECURSIVE SumLen(_, _)
SumLen(vecs, i) == IF i > Len(vecs) THEN 0 ELSE Len(vecs[i]) + SumLen(vecs, i + 1)

\* Coloring_Builder::build_coloring with the entries on the nodes of S
Builder_build_coloring(T, idx, refs, colors, S) ==
    LET vecs == DistinctVectors(idx, refs, colors, S, 0, <<>>)
        present == [i \in 1..idx.N |-> IF (i - 1) \in S THEN 1 ELSE 0]
        ids == [v \in AllNodes(idx) |->
                   ColorSetIdOf(vecs, SortedSeq(NodeColors(idx, refs, colors, v)))]
        values == [j \in 1..Cardinality(S) |->
                      ids[CHOOSE v \in S : Cardinality({w \in S : w < v}) = j - 1]]
    IN [T |-> T,
        sets |-> IF T = "Color_Set"
                 THEN Storage_prepare_for_queries(AddSets(Color_Set_Storage_default, vecs, 1))
                 ELSE GenericAddSets(Generic_Storage_default, vecs, 1),
        node_id_to_color_set_id |->
            [present |-> present, present_rs |-> init_support(present), values |-> values],
        largest_color_id |-> SetMax({0} \cup Range(colors)),
        total_color_set_length |-> SumLen(vecs, 1)]

\* ------------------------------------------------------- load_coloring
Candidates3 == <<"Color_Set", "Roaring_Color_Set", "Bit_Magic_Color_Set">>

Candidates2 == <<"Bitmap_Or_Deltas_ColorSet", "Roaring_Color_Set">>

\* attempt number i of load_coloring: the output variant is assigned a fresh
\* Coloring of the candidate type, which then loads the archive
RECURSIVE load_coloring_from(_, _, _, _, _)
load_coloring_from(candidates, stream, i, attempts, coloring) ==
    IF i > Len(candidates)
    THEN [outcome |-> "runtime_error", what |-> "Error: could not load color structure.",
          coloring |-> coloring, attempts |-> attempts]
    ELSE LET r == Coloring_load(Coloring_default(candidates[i]), stream)
             t == Append(attempts, [T |-> candidates[i], outcome |-> r.outcome, read |-> r.pos])
         IN IF r.outcome = "ok"
            THEN [outcome |-> "ok", what |-> "", coloring |-> r.val, attempts |-> t]
            ELSE IF r.outcome = "WrongTemplateParameterException"
            THEN load_coloring_from(candidates, stream, i + 1, t, r.val)
            ELSE [outcome |-> "runtime_error", what |-> "Unknown color set type:",
                  coloring |-> r.val, attempts |-> t]

\* load_coloring that loads into its local Coloring and assigns the output
\* variant only when the load succeeded
load_coloring_3_keep(stream, coloring) ==
    LET r == load_coloring_from(Candidates3, stream, 1, <<>>, coloring) IN
    IF r.outcome = "ok" THEN r ELSE [r EXCEPT !.coloring = coloring]

\* coloring: the value the caller's variant holds when load_coloring is entered
load_coloring_3(stream, coloring) == load_coloring_from(Candidates3, stream, 1, <<>>, coloring)

load_coloring_2(stream, coloring) == load_coloring_from(Candidates2, stream, 1, <<>>, coloring)

\* ------------------------------------------- the coloring as a program
MaxD == 2

UnknownTag == "sdsl-hybrid-v3"

\* three references A..A, C..C, A..AC with colors 0, 1, 2 and k = 4
EndToEndExample ==
    [k |-> 4,
     refs |-> << <<"A", "A", "A", "A", "A">>, <<"C", "C", "C", "C", "C">>,
                 <<"A", "A", "A", "A", "C">> >>,
     colors |-> <<0, 1, 2>>]

Inputs ==
    {EndToEndExample} \cup
    UNION { {[k |-> K, refs |-> r, colors |-> c] : c \in [1..Len(r) -> Colors]} : r \in RefLists }

InitColoring ==
    /\ storage = Color_Set_Storage_default
    /\ added = <<>>
    /\ prepare_calls = 0
    /\ owned = Color_Set_default
    /\ last = NoOp
    /\ crashed = FALSE
    /\ frozen = [done |-> FALSE, sets |-> <<>>]
    /\ \E in \in Inputs :
          /\ seqfiles = in.refs
          /\ colorfile = in.colors
          /\ index = BuildIndex(KmerSet(in.refs, in.k), in.k)
    /\ config = [coloring_structure_type |-> "none"]
    /\ built = [T |-> "none"]
    /\ file = <<>>
    /\ ld = [outcome |-> "none"]
    /\ q = [status |-> "idle"]
    /\ converted = [T |-> "none"]
    /\ readers = <<>>
    /\ NoStream

\* build_coloring<colorset_t>(dbg, cfs, C): builds and serializes to disk
build_coloring(T, d, S) ==
    /\ built.T = "none"
    /\ S \in CoreChoices(index, seqfiles, colorfile, d)
    /\ LET coloring == Builder_build_coloring(T, index, seqfiles, colorfile, S) IN
       /\ built' = coloring
       /\ file' = Coloring_serialize(coloring).stream
    /\ config' = [coloring_structure_type |-> T, colorset_sampling_distance |-> d]
    /\ UNCHANGED <<index, seqfiles, colorfile, ld, q, converted, readers>>
    /\ UNCHANGED storage_vars
    /\ UNCHANGED stream_vars

\* the archive handed to a loader: the file written by build_coloring, or
\* an archive whose type tag is not one this version writes
Archive(foreign) == IF foreign THEN <<UnknownTag>> \o Tail(file) ELSE file

\* the variant a caller hands to load_coloring: the Coloring that was built
\* when the variant has an alternative of its type, else a default-constructed
\* variant, which holds an empty Coloring of the first alternative
PassedIn(candidates) ==
    IF \E i \in 1..Len(candidates) : candidates[i] = built.T
    THEN built
    ELSE Coloring_default(candidates[1])

\* load_coloring(filename, SBWT, coloring), the loader of three variants
load_coloring_three(foreign) ==
    /\ file # <<>>
    /\ q.status = "idle"
    /\ ld.outcome = "none"
    /\ ld' = [load_coloring_3(Archive(foreign), PassedIn(Candidates3))
                 EXCEPT !.what = <<"3", foreign, @>>] @@ [passed |-> PassedIn(Candidates3)]
    /\ UNCHANGED <<index, seqfiles, colorfile, config, built, file, q, converted, readers>>
    /\ UNCHANGED storage_vars
    /\ UNCHANGED stream_vars

\* load_coloring(filename, SBWT, coloring), the loader of two variants
load_coloring_two(foreign) ==
    /\ file # <<>>
    /\ q.status = "idle"
    /\ ld.outcome = "none"
    /\ ld' = [load_coloring_2(Archive(foreign), PassedIn(Candidates2))
                 EXCEPT !.what = <<"2", foreign, @>>] @@ [passed |-> PassedIn(Candidates2)]
    /\ UNCHANGED <<index, seqfiles, colorfile, config, built, file, q, converted, readers>>
    /\ UNCHANGED storage_vars
    /\ UNCHANGED stream_vars

\* Color_Set_Storage<Color_Set, Color_Set_View>(const vector<Color_Set>&)
Storage_from_sets(sets) ==
    Storage_prepare_for_queries(
        AddSets(Color_Set_Storage_default,
                [i \in 1..Len(sets) |-> colorset_get_colors_as_vector(sets[i])], 1))

\* Color_Set_Storage<colorset_t, colorset_t>(const vector<colorset_t>&)
Generic_Storage_from_sets(sets) == [sets |-> sets]

\* build_from_index that adds one per set to total_length
build_from_index_coloring_count(old_coloring, T) ==
    LET n == number_of_distinct_color_sets(old_coloring)
        set(i) == get_color_set_as_vector_by_color_set_id(old_coloring, i).val
        largest == SetMax({0} \cup UNION {Range(set(i)) : i \in 0..(n - 1)})
        new_colorsets == [i \in 1..n |->
                             IF T = "Color_Set" THEN Color_Set_from_vector(set(i - 1))
                             ELSE Opaque_from_vector(set(i - 1))]
    IN [T |-> T,
        sets |-> IF T = "Color_Set" THEN Storage_from_sets(new_colorsets)
                 ELSE Generic_Storage_from_sets(new_colorsets),
        node_id_to_color_set_id |-> old_coloring.node_id_to_color_set_id,
        largest_color_id |-> largest,
        total_color_set_length |-> n]

\* the Coloring build_from_index makes of old_coloring for color set type T
build_from_index_coloring(old_coloring, T) ==
    LET n == number_of_distinct_color_sets(old_coloring)
        set(i) == get_color_set_as_vector_by_color_set_id(old_coloring, i).val
        largest == SetMax({0} \cup UNION {Range(set(i)) : i \in 0..(n - 1)})
        new_colorsets == [i \in 1..n |->
                             IF T = "Color_Set" THEN Color_Set_from_vector(set(i - 1))
                             ELSE Opaque_from_vector(set(i - 1))]
    IN [T |-> T,
        sets |-> IF T = "Color_Set" THEN Storage_from_sets(new_colorsets)
                 ELSE Generic_Storage_from_sets(new_colorsets),
        node_id_to_color_set_id |-> old_coloring.node_id_to_color_set_id,
        largest_color_id |-> largest,
        total_color_set_length |-> SumLen([i \in 1..n |-> set(i - 1)], 1)]

\* build_from_index<old_coloring_t, new_coloring_t>(dbg, old_coloring, C):
\* re-encodes the loaded Coloring and serializes the new one
build_from_index(T) ==
    /\ ld.outcome = "ok"
    /\ q.status = "idle"
    /\ converted.T = "none"
    /\ LET new_coloring == build_from_index_coloring(ld.coloring, T) IN
       converted' = [new_coloring EXCEPT !.T = T] @@
                    [archive |-> Coloring_serialize(new_coloring).stream]
    /\ UNCHANGED <<index, seqfiles, colorfile, config, built, file, ld, q, readers>>
    /\ UNCHANGED storage_vars
    /\ UNCHANGED stream_vars

\* the Coloring a query runs on: the one built, or the one loaded
Target(loaded) == IF loaded THEN ld.coloring ELSE built

\* a caller enters get_color_set_of_node_as_vector(node)
query_begin(loaded, node) ==
    /\ built.T # "none"
    /\ q.status # "running"
    /\ converted.T = "none"
    /\ IF loaded THEN ld.outcome = "ok" ELSE ld.outcome = "none"
    /\ node \in AllNodes(index)
    /\ q' = [status |-> "running", loaded |-> loaded, node0 |-> node, node |-> node,
             iterations |-> 0, path |-> <<node>>, id |-> -1, colors |-> <<>>]
    /\ UNCHANGED <<index, seqfiles, colorfile, config, built, file, ld, converted, readers>>
    /\ UNCHANGED storage_vars
    /\ UNCHANGED stream_vars

\* one iteration of the loop of get_color_set_id; on leaving the loop the
\* color set of the id is fetched and materialized
query_step ==
    /\ q.status = "running"
    /\ q.iterations <= index.N
    /\ LET r == get_color_set_id_step(Target(q.loaded), index, q.node) IN
       IF r.kind = "next"
       THEN q' = [q EXCEPT !.node = r.val, !.iterations = @ + 1, !.path = Append(@, r.val)]
       ELSE IF r.kind = "throw"
       THEN q' = [q EXCEPT !.status = "thrown"]
       ELSE LET vec == get_color_set_as_vector_by_color_set_id(Target(q.loaded), r.val) IN
            IF vec.kind = "throw"
            THEN q' = [q EXCEPT !.status = "thrown", !.id = r.val]
            ELSE q' = [q EXCEPT !.status = "returned", !.id = r.val, !.colors = vec.val]
    /\ UNCHANGED <<index, seqfiles, colorfile, config, built, file, ld, converted, readers>>
    /\ UNCHANGED storage_vars
    /\ UNCHANGED stream_vars

NextColoring ==
    \/ \E T \in ColorSetTypes, d \in 1..MaxD :
          \E S \in SUBSET AllNodes(index) : build_coloring(T, d, S)
    \/ \E foreign \in BOOLEAN : load_coloring_three(foreign)
    \/ \E foreign \in BOOLEAN : load_coloring_two(foreign)
    \/ \E loaded \in BOOLEAN, node \in AllNodes(index) : query_begin(loaded, node)
    \/ query_step
    \/ \E T \in ColorSetTypes : build_from_index(T)

SpecColoring == InitColoring /\ [][NextColoring]_vars

\* ------------------------------------------- readers of a loaded Coloring
NumReaders == 2

MaxQueries == 2

Readers == 1..NumReaders

\* two references with the colors 0 and MaxColor
ReaderInputs ==
    {[k |-> K, refs |-> r, colors |-> [j \in 1..2 |-> IF j = 1 THEN 0 ELSE MaxColor]] :
        r \in [1..2 -> RefPool]}

NoScratch == [valid |-> FALSE, set |-> Color_Set_default]

IdleReader ==
    [status |-> "idle", node |-> 0, iterations |-> 0, queries |-> 0,
     scratch |-> NoScratch, alone |-> [kind |-> "none"]]

\* a reader's first color set is copied from the view, every later one is
\* intersected into the scratch set
Combine(scratch, view) ==
    IF scratch.valid
    THEN [valid |-> TRUE, set |-> Color_Set_intersection(scratch.set, view)]
    ELSE [valid |-> TRUE, set |-> Color_Set_from_view(view)]

\* what the query of a reader gives when nothing else runs
AloneResult(col, idx, node, scratch) ==
    LET id == get_color_set_id(col, idx, node, 0) IN
    IF id.kind = "return" /\ id.val # -1
    THEN [kind |-> "return", scratch |-> Combine(scratch, get_color_set_by_id(col.sets, id.val))]
    ELSE [kind |-> "throw"]

\* the index was built, written, and loaded by the loader of three variants
InitReaders ==
    /\ storage = Color_Set_Storage_default
    /\ added = <<>>
    /\ prepare_calls = 0
    /\ owned = Color_Set_default
    /\ last = NoOp
    /\ crashed = FALSE
    /\ frozen = [done |-> FALSE, sets |-> <<>>]
    /\ \E in \in ReaderInputs, d \in 1..MaxD :
          LET idx == BuildIndex(KmerSet(in.refs, in.k), in.k) IN
          \E S \in CoreChoices(idx, in.refs, in.colors, d) :
              LET coloring == Builder_build_coloring("Color_Set", idx, in.refs, in.colors, S)
                  stream == Coloring_serialize(coloring).stream
              IN /\ seqfiles = in.refs
                 /\ colorfile = in.colors
                 /\ index = idx
                 /\ config = [coloring_structure_type |-> "Color_Set",
                              colorset_sampling_distance |-> d]
                 /\ built = coloring
                 /\ file = stream
                 /\ ld = [load_coloring_3(stream, Coloring_default("Color_Set"))
                             EXCEPT !.what = <<"3", FALSE, @>>]
    /\ q = [status |-> "idle"]
    /\ converted = [T |-> "none"]
    /\ readers = [r \in Readers |-> IdleReader]
    /\ NoStream

\* reader r enters get_color_set_of_node(node)
reader_begin(r, node) ==
    /\ readers[r].status \in {"idle", "returned"}
    /\ readers[r].queries < MaxQueries
    /\ node \in AllNodes(index)
    /\ readers' = [readers EXCEPT ![r] =
           [@ EXCEPT !.status = "running", !.node = node, !.iterations = 0,
                     !.alone = AloneResult(ld.coloring, index, node, readers[r].scratch)]]
    /\ UNCHANGED <<index, seqfiles, colorfile, config, built, file, ld, q, converted>>
    /\ UNCHANGED storage_vars
    /\ UNCHANGED stream_vars

\* the loop with one scratch set that all readers use
reader_step_shared(r) ==
    /\ readers[r].status = "running"
    /\ readers[r].iterations <= index.N
    /\ LET me == readers[r]
           res == get_color_set_id_step(ld.coloring, index, me.node)
       IN IF res.kind = "next"
          THEN readers' = [readers EXCEPT ![r] =
                   [@ EXCEPT !.node = res.val, !.iterations = @ + 1]]
          ELSE IF res.kind = "throw" \/ res.val = -1
          THEN readers' = [readers EXCEPT ![r] = [@ EXCEPT !.status = "thrown"]]
          ELSE LET sc == Combine(me.scratch, get_color_set_by_id(ld.coloring.sets, res.val)) IN
               readers' = [x \in Readers |->
                              IF x = r
                              THEN [me EXCEPT !.status = "returned", !.queries = @ + 1,
                                              !.scratch = sc]
                              ELSE [readers[x] EXCEPT !.scratch = sc]]
    /\ UNCHANGED <<index, seqfiles, colorfile, config, built, file, ld, q, converted>>
    /\ UNCHANGED storage_vars
    /\ UNCHANGED stream_vars

\* reader r runs one iteration of the loop of get_color_set_id; on leaving
\* the loop it takes the view of the id and combines it into its scratch set
reader_step(r) ==
    /\ readers[r].status = "running"
    /\ readers[r].iterations <= index.N
    /\ LET me == readers[r]
           res == get_color_set_id_step(ld.coloring, index, me.node)
       IN IF res.kind = "next"
          THEN readers' = [readers EXCEPT ![r] =
                   [@ EXCEPT !.node = res.val, !.iterations = @ + 1]]
          ELSE IF res.kind = "throw" \/ res.val = -1
          THEN readers' = [readers EXCEPT ![r] = [@ EXCEPT !.status = "thrown"]]
          ELSE readers' = [readers EXCEPT ![r] =
                   [@ EXCEPT !.status = "returned", !.queries = @ + 1,
                             !.scratch = Combine(me.scratch,
                                 get_color_set_by_id(ld.coloring.sets, res.val))]]
    /\ UNCHANGED <<index, seqfiles, colorfile, config, built, file, ld, q, converted>>
    /\ UNCHANGED storage_vars
    /\ UNCHANGED stream_vars

NextReaders ==
    \/ \E r \in Readers, node \in AllNodes(index) : reader_begin(r, node)
    \/ \E r \in Readers : reader_step(r)

SpecReaders == InitReaders /\ [][NextReaders]_vars

\* the accessors of Coloring that take a node
NodeAccessors == {"get_color_set_id", "get_color_set_of_node",
                  "get_color_set_of_node_as_vector"}

\* the nodes next to the range [0, N)
OutOfRangeNodes == {-1, index.N}

\* number of color sets a Coloring holds
SetsStored(col) ==
    IF col.T = "Color_Set" THEN number_of_sets_stored(col.sets)
    ELSE Generic_number_of_sets_stored(col.sets)

\* a caller passes a node outside [0, N) to one of the node accessors of the
\* loaded Coloring.  Only
\* get_color_set_of_node_as_vector checks the node, with two assert()s that
\* exist when the build has assertions enabled (the flag plays no part in the
\* other two accessors, which hold no assert).  Otherwise is_core_kmer(node)
\* reads the map past its end: the read faults, or it yields an arbitrary bit
\* and the accessor goes on to throw or to return one of the stored sets.
query_out_of_range(accessor, node, assertions) ==
    /\ built.T # "none"
    /\ q.status # "running"
    /\ converted.T = "none"
    /\ ld.outcome = "ok"
    /\ node \in OutOfRangeNodes
    /\ assertions => accessor = "get_color_set_of_node_as_vector"
    /\ LET call == [status |-> "out_of_range", loaded |-> TRUE, node0 |-> node,
                    node |-> node, iterations |-> 0, path |-> <<node>>, id |-> -1,
                    colors |-> <<>>, accessor |-> accessor, assertions |-> assertions,
                    outcome |-> "assertion failed"]
       IN
       IF accessor = "get_color_set_of_node_as_vector" /\ assertions
       THEN q' = call
       ELSE \/ q' = [call EXCEPT !.outcome = "fault"]
            \/ q' = [call EXCEPT !.outcome = "thrown"]
            \/ \E id \in 0..(SetsStored(ld.coloring) - 1) :
                  q' = [call EXCEPT
                          !.outcome = "returned", !.id = id,
                          !.colors = get_color_set_as_vector_by_color_set_id(ld.coloring, id).val]
    /\ UNCHANGED <<index, seqfiles, colorfile, config, built, file, ld, converted, readers>>
    /\ UNCHANGED storage_vars
    /\ UNCHANGED stream_vars

\* the callers of the node accessors of a loaded Coloring
NextAccess ==
    \/ \E node \in AllNodes(index) : query_begin(TRUE, node)
    \/ query_step
    \/ \E accessor \in NodeAccessors, node \in {-1, index.N}, assertions \in BOOLEAN :
          query_out_of_range(accessor, node, assertions)

SpecAccess == InitReaders /\ [][NextAccess]_vars

\* =========================================================================
\* The color streams of the build (one color per sequence the reader yields).

MaxFiles == 2
MaxLines == 2
MaxCalls == 6
MaxSeqs == 4

\* the lines of the color files: decimal strings, one digit per character
Lines == {<<0>>, <<1>>, <<1, 0>>}

\* a file: at most MaxLines lines
FileContents == UNION {[1..n -> Lines] : n \in 0..MaxLines}

\* the lists of color files a build can be given
ColorfileLists == UNION {[1..n -> FileContents] : n \in 0..MaxFiles}

\* a sequence file: at most MaxLines sequences (their letters play no part in
\* the color streams)
SeqFiles == {[j \in 1..c |-> <<"A">>] : c \in 0..MaxLines}

\* the lists of sequence files a build can be given
SeqFileLists == UNION {[1..n -> SeqFiles] : n \in 0..(MaxFiles + 1)}

\* sbwt::SeqIO::count_sequences(filename)
count_sequences(seqfile) == Len(seqfile)

\* fast_string_to_int(line.c_str(), line.size())
RECURSIVE fast_string_to_int(_)
fast_string_to_int(line) ==
    IF line = <<>> THEN 0
    ELSE 10 * fast_string_to_int(SubSeq(line, 1, Len(line) - 1)) + line[Len(line)]

\* *(int64_t*)ret.data() = x: the eight bytes of x, least significant first
RECURSIVE low_bytes(_, _)
low_bytes(x, n) == IF n = 0 THEN <<>> ELSE <<x % 256>> \o low_bytes(x \div 256, n - 1)

to_bytes(x) == low_bytes(x, 8)

\* the int64_t the consumer reads back from the eight bytes
RECURSIVE from_bytes(_)
from_bytes(ret) ==
    IF ret = <<>> THEN 0 ELSE ret[1] + 256 * from_bytes(Tail(ret))

\* Colorfile_Stream(filenames, reverse_complements), filenames non-empty; x is
\* not initialized by the constructor
Colorfile_Stream(filenames, reverse_complements, x) ==
    [kind |-> "Colorfile_Stream", in |-> [file |-> 0, pos |-> 0], line |-> <<>>,
     filenames |-> Len(filenames), current_file_idx |-> 0, x |-> x,
     reverse_complements |-> reverse_complements, rc_flag |-> FALSE]

\* while(!in->getline(line)){ current_file_idx++; ... }
RECURSIVE read_next_line(_, _)
read_next_line(s, files) ==
    IF s.in.pos < Len(files[s.in.file + 1])
    THEN [stream |-> [s EXCEPT !.line = files[s.in.file + 1][s.in.pos + 1],
                               !.in.pos = @ + 1],
          threw |-> FALSE]
    ELSE LET idx == s.current_file_idx + 1 IN
         IF idx >= s.filenames
         THEN [stream |-> [s EXCEPT !.current_file_idx = idx], threw |-> TRUE]
         ELSE read_next_line([s EXCEPT !.current_file_idx = idx,
                                       !.in = [file |-> idx, pos |-> 0]], files)

\* variant of next() that reads a new line on every call
Colorfile_Stream_next_always_read(s, files) ==
    LET r == read_next_line(s, files) IN
    IF r.threw
    THEN [stream |-> r.stream, threw |-> TRUE, undefined |-> FALSE, ret |-> <<>>]
    ELSE LET x == fast_string_to_int(r.stream.line) IN
         [stream |-> [r.stream EXCEPT !.x = x, !.rc_flag = ~@],
          threw |-> FALSE, undefined |-> FALSE, ret |-> to_bytes(x)]

\* Colorfile_Stream::next()
Colorfile_Stream_next(s, files) ==
    IF s.reverse_complements /\ s.rc_flag
    THEN [stream |-> [s EXCEPT !.rc_flag = ~@],
          threw |-> FALSE, undefined |-> FALSE, ret |-> to_bytes(s.x)]
    ELSE LET r == read_next_line(s, files) IN
         IF r.threw
         THEN [stream |-> r.stream, threw |-> TRUE, undefined |-> FALSE, ret |-> <<>>]
         ELSE LET x == fast_string_to_int(r.stream.line) IN
              [stream |-> [r.stream EXCEPT !.x = x, !.rc_flag = ~@],
               threw |-> FALSE, undefined |-> FALSE, ret |-> to_bytes(x)]

\* variant of the constructor that does not double the counts
Unique_For_Each_File_Color_Stream_single(filenames, reverse_complements) ==
    [kind |-> "Unique_For_Each_File_Color_Stream",
     seq_count_in_file |-> [i \in 1..Len(filenames) |-> count_sequences(filenames[i])],
     cur_file_idx |-> 0, cur_file_seq_idx |-> 0, x |-> 0,
     reverse_complements |-> reverse_complements]

\* Unique_For_Each_File_Color_Stream(filenames, reverse_complements)
Unique_For_Each_File_Color_Stream(filenames, reverse_complements) ==
    [kind |-> "Unique_For_Each_File_Color_Stream",
     seq_count_in_file |->
        [i \in 1..Len(filenames) |->
            IF reverse_complements THEN count_sequences(filenames[i]) * 2
            ELSE count_sequences(filenames[i])],
     cur_file_idx |-> 0, cur_file_seq_idx |-> 0, x |-> 0,
     reverse_complements |-> reverse_complements]

\* while(cur_file_seq_idx >= seq_count_in_file[cur_file_idx]){ ... }; the read
\* of seq_count_in_file past its end is undefined
RECURSIVE skip_finished_files(_)
skip_finished_files(s) ==
    IF s.cur_file_idx >= Len(s.seq_count_in_file)
    THEN [stream |-> s, undefined |-> TRUE]
    ELSE IF s.cur_file_seq_idx >= s.seq_count_in_file[s.cur_file_idx + 1]
         THEN skip_finished_files([s EXCEPT !.cur_file_idx = @ + 1,
                                            !.cur_file_seq_idx = 0])
         ELSE [stream |-> s, undefined |-> FALSE]

\* Unique_For_Each_File_Color_Stream::next()
Unique_For_Each_File_Color_Stream_next(s) ==
    LET r == skip_finished_files(s) IN
    [stream |-> [r.stream EXCEPT !.cur_file_seq_idx = @ + 1],
     threw |-> FALSE, undefined |-> r.undefined,
     ret |-> to_bytes(r.stream.cur_file_idx)]

\* Unique_For_Each_Sequence_Color_Stream(reverse_complements)
Unique_For_Each_Sequence_Color_Stream(reverse_complements) ==
    [kind |-> "Unique_For_Each_Sequence_Color_Stream", x |-> 0,
     reverse_complements |-> reverse_complements, increment_flag |-> FALSE]

\* variant of next() that increments on every call
Unique_For_Each_Sequence_Color_Stream_next_every(s) ==
    [stream |-> [s EXCEPT !.x = @ + 1, !.increment_flag = ~@],
     threw |-> FALSE, undefined |-> FALSE, ret |-> to_bytes(s.x)]

\* Unique_For_Each_Sequence_Color_Stream::next()
Unique_For_Each_Sequence_Color_Stream_next(s) ==
    [stream |-> [s EXCEPT !.x = IF ~s.reverse_complements \/ s.increment_flag
                                 THEN @ + 1 ELSE @,
                          !.increment_flag = ~@],
     threw |-> FALSE, undefined |-> FALSE, ret |-> to_bytes(s.x)]

\* Metadata_Stream::next(), a virtual call
Metadata_Stream_next(s, files) ==
    IF s.kind = "Colorfile_Stream" THEN Colorfile_Stream_next(s, files)
    ELSE IF s.kind = "Unique_For_Each_File_Color_Stream"
         THEN Unique_For_Each_File_Color_Stream_next(s)
    ELSE Unique_For_Each_Sequence_Color_Stream_next(s)

\* number of lines the Colorfile_Stream has taken from the color files so far
RECURSIVE LinesBefore(_, _)
LinesBefore(files, n) ==
    IF n = 0 THEN 0 ELSE Len(files[n]) + LinesBefore(files, n - 1)

LinesConsumed(s, files) ==
    IF s.kind = "Colorfile_Stream" THEN LinesBefore(files, s.in.file) + s.in.pos ELSE 0

\* the entry of the call history for one outcome of next()
Outcome(r, files) ==
    [threw |-> r.threw, fault |-> FALSE, ret |-> r.ret,
     lines |-> LinesConsumed(r.stream, files)]

\* main(): color_stream = make_unique<Colorfile_Stream>(C.colorfiles, ...).
\* An empty list makes the constructor throw and no stream exists.
make_Colorfile_Stream(files, reverse_complements) ==
    /\ color_stream.kind = "none"
    /\ files # <<>>
    /\ \E x \in {-1, 0} :
          color_stream' = Colorfile_Stream(files, reverse_complements, x)
    /\ colorfiles' = files
    /\ UNCHANGED <<returned, dispatch>>
    /\ UNCHANGED storage_vars
    /\ UNCHANGED coloring_vars

\* main(): color_stream = make_unique<Unique_For_Each_File_Color_Stream>(C.seqfiles, ...)
make_Unique_For_Each_File_Color_Stream(filenames, reverse_complements) ==
    /\ color_stream.kind = "none"
    /\ seqfiles' = filenames
    /\ color_stream' = Unique_For_Each_File_Color_Stream(filenames, reverse_complements)
    /\ UNCHANGED <<colorfiles, returned, dispatch>>
    /\ UNCHANGED storage_vars
    /\ UNCHANGED <<index, colorfile, config, built, file, ld, q, converted, readers>>

\* main(): color_stream = make_unique<Unique_For_Each_Sequence_Color_Stream>(...)
make_Unique_For_Each_Sequence_Color_Stream(reverse_complements) ==
    /\ color_stream.kind = "none"
    /\ color_stream' = Unique_For_Each_Sequence_Color_Stream(reverse_complements)
    /\ UNCHANGED <<colorfiles, returned, dispatch>>
    /\ UNCHANGED storage_vars
    /\ UNCHANGED coloring_vars

Faulted == returned # <<>> /\ returned[Len(returned)].fault

\* color_stream->next(), one call.  A call of the per-file stream after the
\* last sequence reads seq_count_in_file past its end: it faults, or finds a
\* positive count there and returns the index of a file that does not exist.
next ==
    /\ color_stream.kind # "none"
    /\ ~Faulted
    /\ Len(returned) < MaxCalls
    /\ LET r == Metadata_Stream_next(color_stream, colorfiles) IN
       IF r.undefined
       THEN \/ /\ returned' = Append(returned, [Outcome(r, colorfiles) EXCEPT !.fault = TRUE,
                                                                              !.ret = <<>>])
               /\ UNCHANGED color_stream
            \/ /\ returned' = Append(returned, Outcome(r, colorfiles))
               /\ color_stream' = r.stream
       ELSE /\ returned' = Append(returned, Outcome(r, colorfiles))
            /\ color_stream' = r.stream
    /\ UNCHANGED <<colorfiles, dispatch>>
    /\ UNCHANGED storage_vars
    /\ UNCHANGED coloring_vars

\* the sequence loop of the builder: one next() per sequence the reader yields;
\* an exception of next() ends the loop
RECURSIVE read_sequences(_, _, _, _)
read_sequences(s, files, reads, log) ==
    IF reads = 0 THEN [stream |-> s, log |-> log, threw |-> FALSE]
    ELSE LET r == Metadata_Stream_next(s, files) IN
         IF r.threw
         THEN [stream |-> r.stream, log |-> Append(log, Outcome(r, files)), threw |-> TRUE]
         ELSE read_sequences(r.stream, files, reads - 1, Append(log, Outcome(r, files)))

RECURSIVE Sum(_)
Sum(counts) == IF counts = <<>> THEN 0 ELSE Head(counts) + Sum(Tail(counts))

\* build_coloring(dbg, color_stream.get(), C) on input files that hold n
\* sequences: the reader yields every sequence, and its reverse complement when
\* reverse complements are enabled; then the coloring is serialized
build_coloring_with_stream(n) ==
    /\ color_stream.kind # "none"
    /\ dispatch.status = "none"
    /\ returned = <<>>
    /\ color_stream.kind = "Unique_For_Each_File_Color_Stream" =>
          Sum(color_stream.seq_count_in_file)
              = n * (IF color_stream.reverse_complements THEN 2 ELSE 1)
    /\ LET reads == n * (IF color_stream.reverse_complements THEN 2 ELSE 1)
           run == read_sequences(color_stream, colorfiles, reads, <<>>)
       IN /\ color_stream' = run.stream
          /\ returned' = run.log
          /\ dispatch' = [status |-> IF run.threw THEN "failed" ELSE "ok",
                          sequences |-> n]
    /\ UNCHANGED colorfiles
    /\ UNCHANGED storage_vars
    /\ UNCHANGED coloring_vars

NextStreams ==
    \/ \E files \in ColorfileLists, rc \in BOOLEAN : make_Colorfile_Stream(files, rc)
    \/ \E filenames \in SeqFileLists, rc \in BOOLEAN :
          make_Unique_For_Each_File_Color_Stream(filenames, rc)
    \/ \E rc \in BOOLEAN : make_Unique_For_Each_Sequence_Color_Stream(rc)
    \/ next
    \/ \E n \in 0..MaxSeqs : build_coloring_with_stream(n)

SpecStreams == Init /\ [][NextStreams]_vars

\* ------------------------------------------------------------ properties
\* number of sets added before the last prepare_for_queries
FrozenCount == Len(added) - Len(storage.temp_is_bitmap_marks)

\* C1: after add_set(V0), ..., add_set(Vn-1) and prepare_for_queries, for
\* every id i and every color c, get_color_set_by_id(i).contains(c) holds
\* iff c is in Vi.
StorageRoundTrip ==
    prepare_calls = 1 =>
        /\ number_of_sets_stored(storage) = FrozenCount
        /\ \A i \in 0..(FrozenCount - 1) : \A c \in 0..(MaxColor + 1) :
              colorset_contains(get_color_set_by_id(storage, i), c)
                  <=> c \in Range(added[i + 1])

\* a frozen storage holding a bitmap-typed set followed by an array-typed set
\* that contains the largest color
StorageRoundTripWitness ==
    /\ prepare_calls = 1
    /\ \E i \in 0..(FrozenCount - 1) : \E j \in 0..(i - 1) :
          /\ storage.is_bitmap_marks[j + 1] = 1
          /\ ~get_color_set_by_id(storage, i).is_bitmap
          /\ colorset_contains(get_color_set_by_id(storage, i), MaxColor)

\* C2: after A.intersection(B), A.get_colors_as_vector() equals
\* sorted(set(A) \cap set(B)), for every representation pair and every start
\* offset of the view B.
IntersectionCorrect ==
    last.op = "intersection" =>
        colorset_get_colors_as_vector(owned) = SortedSeq(last.A0 \cap last.B)

\* smallest e with 2^e >= x
RECURSIVE CeilLog2From(_, _)
CeilLog2From(x, e) == IF Pow(2, e) >= x THEN e ELSE CeilLog2From(x, e + 1)

CeilLog2(x) == CeilLog2From(x, 0)

\* the cutoff of the specification: bitmap iff ceil(log2(m+1)) * |V| >= m+1
SpecCutoff(m, n) == CeilLog2(m + 1) * n >= m + 1

\* C3: a vector V with maximum element m is stored as a bitmap iff
\* ceil(log2(m+1)) * |V| >= m+1, by the Color_Set constructor and by add_set.
RepresentationChoice ==
    /\ (last.op = "construct" /\ last.V # <<>>) =>
          (colorset_is_bitmap(owned)
              <=> SpecCutoff(max_element(last.V), Len(last.V)))
    /\ prepare_calls = 1 =>
          \A i \in 0..(FrozenCount - 1) :
              added[i + 1] # <<>> =>
                  (storage.is_bitmap_marks[i + 1] = 1
                      <=> SpecCutoff(max_element(added[i + 1]), Len(added[i + 1])))

\* C4: the color set built from a strictly ascending vector V returns
\* exactly V from get_colors_as_vector(), in either representation.
ConstructionRoundTrip ==
    last.op = "construct" => colorset_get_colors_as_vector(owned) = last.V

\* a bitmap-typed set was built from a vector that has gaps
ConstructionRoundTripWitness ==
    /\ last.op = "construct"
    /\ colorset_is_bitmap(owned)
    /\ Len(last.V) >= 2
    /\ Len(last.V) < owned.length

\* ------------------------------------------------ properties of Coloring
\* the archive the last load_coloring was given, and its type tag
LoadedArchive == Archive(ld.what[2])

LoadedTag == LoadedArchive[1]

KnownTags == {"sdsl-hybrid-v4", "roaring-v0", "bitmagic-v0"}

TypeOfTag(tag) ==
    IF tag = "sdsl-hybrid-v4" THEN "Color_Set"
    ELSE IF tag = "roaring-v0" THEN "Roaring_Color_Set"
    ELSE IF tag = "bitmagic-v0" THEN "Bit_Magic_Color_Set"
    ELSE "none"

\* every public accessor of c1 returns what it returns on c2
SameAccessors(c1, c2) ==
    /\ \A v \in AllNodes(index) :
          /\ is_core_kmer(c1, v) = is_core_kmer(c2, v)
          /\ get_color_set_id(c1, index, v, 0) = get_color_set_id(c2, index, v, 0)
          /\ get_color_set_of_node_as_vector(c1, index, v)
                 = get_color_set_of_node_as_vector(c2, index, v)
    /\ number_of_distinct_color_sets(c1) = number_of_distinct_color_sets(c2)
    /\ largest_color(c1) = largest_color(c2)
    /\ sum_of_all_distinct_color_set_lengths(c1) = sum_of_all_distinct_color_set_lengths(c2)

\* C5: loading the archive written by C.serialize into a Coloring of the
\* same color set type consumes the whole archive, component by component in
\* the order written, and yields a Coloring on which every public accessor
\* returns the value it returns on C.
SerializationRoundTrip ==
    (ld.outcome = "ok" /\ LoadedArchive = file) =>
        /\ ld.coloring.T = built.T
        /\ ld.attempts[Len(ld.attempts)].read = Len(file)
        /\ SameAccessors(built, ld.coloring)

\* a hybrid coloring with a bitmap-typed set, a node without entry and
\* different counters was written and loaded back
SerializationRoundTripWitness ==
    /\ ld.outcome = "ok"
    /\ LoadedArchive = file
    /\ built.T = "Color_Set"
    /\ \E i \in 1..Len(built.sets.is_bitmap_marks) : built.sets.is_bitmap_marks[i] = 1
    /\ \E v \in RealNodes(index) : ~is_core_kmer(ld.coloring, v)
    /\ largest_color(built) # sum_of_all_distinct_color_set_lengths(built)

\* the nodes the forward-edge formula gives for the set bits of v
FormulaSuccessors(idx, v) ==
    (IF idx.A_bits[v + 1] = 1 THEN {idx.C_array[1] + subset_rank(idx.A_bits, v)} ELSE {})
    \cup (IF idx.C_bits[v + 1] = 1 THEN {idx.C_array[2] + subset_rank(idx.C_bits, v)} ELSE {})
    \cup (IF idx.G_bits[v + 1] = 1 THEN {idx.C_array[3] + subset_rank(idx.G_bits, v)} ELSE {})
    \cup (IF idx.T_bits[v + 1] = 1 THEN {idx.C_array[4] + subset_rank(idx.T_bits, v)} ELSE {})

\* C6: get_color_set_id(u) returns the id stored at u when u has an entry;
\* otherwise the id stored at the first node with an entry on the path that
\* follows, from each node, the out-edge given by C_array[X] + rank(node, X),
\* which is an edge of the graph; every node of that path has the color set
\* of the node the path ends at.
NodeResolution ==
    q.status = "returned" =>
        LET col == Target(q.loaded)
            n == Len(q.path)
        IN /\ q.path[1] = q.node0
           /\ is_core_kmer(col, q.path[n])
           /\ q.id = Sparse_get(col.node_id_to_color_set_id, q.path[n])
           /\ \A i \in 1..(n - 1) :
                 /\ ~is_core_kmer(col, q.path[i])
                 /\ q.path[i + 1] \in FormulaSuccessors(index, q.path[i])
                 /\ q.path[i + 1] \in Successors(index, q.path[i])
           /\ \A i \in 1..n :
                 get_color_set_of_node_as_vector(col, index, q.path[i])
                     = [kind |-> "return", val |-> q.colors]

\* a query on a k-mer without entry went over two edges to a node with entry
NodeResolutionWitness ==
    /\ q.status = "returned"
    /\ q.node0 \in RealNodes(index)
    /\ Len(q.path) >= 2
    /\ q.path[Len(q.path)] # q.node0

\* C7: after build_coloring, the color set returned for the node of a k-mer
\* of the references is exactly the set of colors of the references that
\* contain the k-mer, on the Coloring built and on the one loaded back.
EndToEndColoring ==
    (q.status # "idle" /\ q.status # "running" /\ q.node0 \in RealNodes(index)) =>
        /\ q.status = "returned"
        /\ q.colors = SortedSeq(NodeColors(index, seqfiles, colorfile, q.node0))

\* k = 4, references A..A (0), C..C (1), A..AC (2): after reloading, the
\* node of AAAA returns {0, 2}
EndToEndColoringWitness ==
    /\ index.k = 4
    /\ colorfile = <<0, 1, 2>>
    /\ q.status = "returned"
    /\ q.loaded
    /\ index.label[q.node0] = <<"A", "A", "A", "A">>
    /\ q.colors = <<0, 2>>

\* k = 4 example: the node of CCCC returns {1} and the node of AAAC {2}
EndToEndExampleRest ==
    (index.k = 4 /\ q.status = "returned") =>
        /\ index.label[q.node0] = <<"C", "C", "C", "C">> => q.colors = <<1>>
        /\ index.label[q.node0] = <<"A", "A", "A", "C">> => q.colors = <<2>>

\* the order of candidates of the loader that ran last
CandidatesOf(loader) == IF loader = "3" THEN Candidates3 ELSE Candidates2

\* C8: load_coloring on an archive with a known tag ends with the output
\* variant holding the fully loaded Coloring of the matching type; candidates
\* are tried in their fixed order, the next one only after the previous one
\* raised the wrong-variant failure; an archive with another tag makes
\* load_coloring fail.
VariantOpenLoad ==
    ld.outcome # "none" =>
        /\ \A i \in 1..Len(ld.attempts) :
              /\ ld.attempts[i].T = CandidatesOf(ld.what[1])[i]
              /\ i < Len(ld.attempts) =>
                     ld.attempts[i].outcome = "WrongTemplateParameterException"
        /\ LoadedTag \in KnownTags =>
              /\ ld.outcome = "ok"
              /\ ld.coloring.T = TypeOfTag(LoadedTag)
              /\ SameAccessors(built, ld.coloring)
        /\ LoadedTag \notin KnownTags => ld.outcome = "runtime_error"

\* the loader of three variants alone satisfies the statement of C8
VariantOpenLoadThree == ld.outcome # "none" /\ ld.what[1] = "3" => VariantOpenLoad

\* C9: Coloring<T>::load accepts the tag Coloring<T>::serialize writes; a
\* known tag of another type raises WrongTemplateParameterException, a tag
\* outside the known ones raises another error, and in both failure cases
\* nothing after the tag is read from the stream.
TagCheck ==
    ld.outcome # "none" =>
        \A i \in 1..Len(ld.attempts) :
            LET a == ld.attempts[i] IN
            /\ a.T = TypeOfTag(LoadedTag) => a.outcome = "ok"
            /\ (LoadedTag \in KnownTags /\ a.T # TypeOfTag(LoadedTag)) =>
                   (a.outcome = "WrongTemplateParameterException" /\ a.read = 1)
            /\ LoadedTag \notin KnownTags =>
                   (a.outcome = "runtime_error" /\ a.read = 1)
            /\ (LoadedArchive = file /\ a.T = built.T) => a.outcome = "ok"

\* a load that met the wrong-variant failure twice before the right type
TagCheckWitness ==
    /\ ld.outcome = "ok"
    /\ Len(ld.attempts) = 3
    /\ ld.attempts[1].outcome = "WrongTemplateParameterException"
    /\ ld.attempts[3].T = built.T

\* a load of an archive with an unknown tag
TagCheckUnknownWitness ==
    /\ ld.outcome = "runtime_error"
    /\ LoadedTag = UnknownTag
    /\ Len(ld.attempts) = 1

\* number of out-edge bits set at node v
OutDegree(idx, v) ==
    idx.A_bits[v + 1] + idx.C_bits[v + 1] + idx.G_bits[v + 1] + idx.T_bits[v + 1]

\* C10: on an index produced by the builder the loop of get_color_set_id
\* visits no node twice, so it ends after fewer iterations than there are
\* nodes; every k-mer node without entry has exactly one out-edge.
TraversalTermination ==
    /\ q.status # "idle" =>
          /\ \A i, j \in 1..Len(q.path) : q.path[i] = q.path[j] => i = j
          /\ q.iterations < index.N
    /\ built.T # "none" =>
          \A v \in RealNodes(index) :
              ~is_core_kmer(built, v) => OutDegree(index, v) = 1

\* the nodes reachable from the nodes of W over at most n edges
RECURSIVE ReachableFrom(_, _, _)
ReachableFrom(idx, W, n) ==
    IF n = 0 THEN W
    ELSE ReachableFrom(idx, W \cup UNION {Successors(idx, w) : w \in W}, n - 1)

\* a traversal that started at a node without entry on a cycle of the graph
\* has left the loop
TraversalTerminationWitness ==
    /\ q.status = "returned"
    /\ q.iterations >= 1
    /\ q.node0 \in ReachableFrom(index, {q.node}, index.N)

\* C11: on an index built with sampling distance d, get_color_set_id started
\* at the node of a k-mer follows at most d edges before it reaches a node
\* with an entry; with d = 1 every k-mer node has an entry.
BoundedTraversal ==
    /\ (q.status # "idle" /\ q.node0 \in RealNodes(index)) =>
          q.iterations <= config.colorset_sampling_distance
    /\ (built.T # "none" /\ config.colorset_sampling_distance = 1) =>
          \A v \in RealNodes(index) : is_core_kmer(built, v)

\* with d = 2 a query on a k-mer without entry returned after one edge
BoundedTraversalWitness ==
    /\ q.status = "returned"
    /\ config.colorset_sampling_distance = 2
    /\ q.node0 \in RealNodes(index)
    /\ q.iterations = 1

\* node v has no entry and none of its four out-edge bits is set
DeadEnd(col, idx, v) == ~is_core_kmer(col, v) /\ OutDegree(idx, v) = 0

\* C12: when the traversal of get_color_set_id stands at a node with no entry
\* and none of the bits A, C, G, T set, the call ends with an error and no
\* color set id and no color set is returned.
DeadEndFatal ==
    (q.status \in {"returned", "thrown"} /\ DeadEnd(Target(q.loaded), index, q.node)) =>
        /\ q.status = "thrown"
        /\ q.id = -1
        /\ q.colors = <<>>

\* a query has ended at a dead end
DeadEndFatalWitness ==
    /\ q.status = "thrown"
    /\ DeadEnd(Target(q.loaded), index, q.node)

\* the colors of all distinct sets of a Coloring, by color set id
AllSetVectors(col) ==
    [i \in 1..number_of_distinct_color_sets(col) |->
        get_color_set_as_vector_by_color_set_id(col, i - 1)]

\* C13: the Coloring build_from_index makes has as many distinct color sets
\* as the old one, color set id i holds the colors of old set i, the node map
\* is the old map, the largest color is the maximum over all sets and the
\* total length the sum of the set sizes, for every old and new type.
RebuildFromIndex ==
    converted.T # "none" =>
        LET old == ld.coloring
            vecs == AllSetVectors(old)
        IN /\ number_of_distinct_color_sets(converted) = number_of_distinct_color_sets(old)
           /\ AllSetVectors(converted) = vecs
           /\ converted.node_id_to_color_set_id = old.node_id_to_color_set_id
           /\ largest_color(converted)
                  = SetMax({0} \cup UNION {Range(vecs[i].val) : i \in 1..Len(vecs)})
           /\ sum_of_all_distinct_color_set_lengths(converted)
                  = SumLen([i \in 1..Len(vecs) |-> vecs[i].val], 1)

\* a roaring Coloring with two sets was re-encoded as a hybrid one that
\* stores a bitmap-typed set
RebuildFromIndexWitness ==
    /\ converted.T = "Color_Set"
    /\ ld.coloring.T = "Roaring_Color_Set"
    /\ number_of_distinct_color_sets(converted) >= 2
    /\ \E i \in 1..Len(converted.sets.is_bitmap_marks) : converted.sets.is_bitmap_marks[i] = 1

\* C14: after the first prepare_for_queries no later call (add_set, a second
\* prepare_for_queries) changes number_of_sets_stored() or the colors that
\* get_color_set_by_id(i) returns for an id stored before the freeze.
FrozenStorage ==
    frozen.done =>
        /\ number_of_sets_stored(storage) = Len(frozen.sets)
        /\ \A i \in 1..Len(frozen.sets) :
              colorset_get_colors_as_vector(get_color_set_by_id(storage, i - 1))
                  = frozen.sets[i]

\* add_set on a frozen storage leaves the stored sets as they were; only a
\* further prepare_for_queries replaces them
FrozenStorageUntilPrepare == (frozen.done /\ prepare_calls = 1) => FrozenStorage

\* C15: queries of concurrent readers leave the loaded Coloring, with its
\* storage and node map, as it was loaded, an intersection changes only the
\* scratch set of its reader, and every query ends with the result it has
\* when it runs alone, under every interleaving.
ImmutableAfterLoad ==
    /\ ld.coloring = built
    /\ file = Coloring_serialize(ld.coloring).stream
    /\ \A r \in Readers :
          /\ readers[r].status = "returned" =>
                readers[r].alone = [kind |-> "return", scratch |-> readers[r].scratch]
          /\ readers[r].status = "thrown" => readers[r].alone = [kind |-> "throw"]

\* one reader is inside the loop of its second query while the other has
\* intersected a second color set into its own, different scratch set
ImmutableAfterLoadWitness ==
    /\ readers[1].status = "running"
    /\ readers[1].queries = 1
    /\ readers[2].status = "returned"
    /\ readers[2].queries = 2
    /\ readers[1].scratch # readers[2].scratch
    /\ \E r \in Readers : readers[r].scratch.set.is_bitmap

\* C16: after A.do_union(B), A.get_colors_as_vector() equals
\* sorted(set(A) \cup set(B)) and A is a bitmap exactly when the cutoff rule of
\* the representation choice picks a bitmap for that union, whatever the
\* representations of A and B were.
UnionCorrect ==
    /\ last.op # "union_fault"
    /\ last.op = "union" =>
        /\ colorset_get_colors_as_vector(owned) = SortedSeq(last.A0 \cup last.B)
        /\ (last.A0 \cup last.B) # {} =>
              (colorset_is_bitmap(owned)
                  <=> SpecCutoff(SetMax(last.A0 \cup last.B),
                                 Cardinality(last.A0 \cup last.B)))

\* a vector as get_colors_as_vector must return it
StrictlyAscending(v) == \A i \in 1..(Len(v) - 1) : v[i] < v[i + 1]

\* the part of C16 the code keeps: a union step from a well-formed A whose
\* result is not empty leaves the right contents, in the representation the
\* constructor's own cutoff gives
UnionContents ==
    [][(/\ last'.op = "union"
        /\ last' # last
        /\ StrictlyAscending(colorset_get_colors_as_vector(owned))
        /\ last'.V # <<>>) =>
           /\ colorset_get_colors_as_vector(owned') = SortedSeq(last'.A0 \cup last'.B)
           /\ colorset_is_bitmap(owned')
                 <=> DenseCutoff(SetMax(last'.A0 \cup last'.B),
                                 Cardinality(last'.A0 \cup last'.B))]_vars

\* the color the n-th call (n = 0, 1, ...) of next() returned
ReturnedColor(n) == from_bytes(returned[n + 1].ret)

\* C17: the n-th call of Unique_For_Each_Sequence_Color_Stream.next() returns
\* color n without reverse complements and color floor(n/2) with reverse
\* complements.
PerSequenceColors ==
    color_stream.kind = "Unique_For_Each_Sequence_Color_Stream" =>
        \A n \in 0..(Len(returned) - 1) :
            /\ ~returned[n + 1].threw
            /\ ~returned[n + 1].fault
            /\ ReturnedColor(n) = IF color_stream.reverse_complements
                                  THEN n \div 2 ELSE n

\* next() has been called five times on a stream with reverse complements: the
\* calls returned 0,0,1,1,2
PerSequenceColorsWitness ==
    /\ color_stream.kind = "Unique_For_Each_Sequence_Color_Stream"
    /\ color_stream.reverse_complements
    /\ Len(returned) = 5
    /\ ReturnedColor(4) = 2
    /\ ReturnedColor(3) = 1

\* the colors listed in the color files, in file order and line order
RECURSIVE ListedColors(_)
ListedColors(files) ==
    IF files = <<>> THEN <<>>
    ELSE [i \in 1..Len(Head(files)) |-> fast_string_to_int(Head(files)[i])]
            \o ListedColors(Tail(files))

\* number of calls of next() that return one listed color
CallsPerColor == IF color_stream.reverse_complements THEN 2 ELSE 1

\* C18: the n-th call of Colorfile_Stream.next() that returns gives the
\* floor(n/c)-th listed color in file order and line order, c = 1 without and
\* c = 2 with reverse complements (so every listed color is returned in c
\* consecutive calls), and the stream has then consumed floor(n/c)+1 lines: a
\* line is consumed only by the calls that need a new color.  No call fails
\* while a listed color is still to be returned.
ManualColors ==
    color_stream.kind = "Colorfile_Stream" =>
        \A n \in 0..(Len(returned) - 1) :
            IF returned[n + 1].threw
            THEN (n \div CallsPerColor) >= Len(ListedColors(colorfiles))
            ELSE /\ (n \div CallsPerColor) < Len(ListedColors(colorfiles))
                 /\ ReturnedColor(n) = ListedColors(colorfiles)[(n \div CallsPerColor) + 1]
                 /\ returned[n + 1].lines = (n \div CallsPerColor) + 1

\* two color files, the second with two lines and a color that differs from
\* the first file's, read with reverse complements up to the second call of
\* the third color
ManualColorsWitness ==
    /\ color_stream.kind = "Colorfile_Stream"
    /\ color_stream.reverse_complements
    /\ Len(colorfiles) = 2
    /\ Len(colorfiles[1]) = 1
    /\ Len(colorfiles[2]) = 2
    /\ ListedColors(colorfiles) = <<1, 0, 10>>
    /\ Len(returned) = 6
    /\ ~returned[6].threw
    /\ ReturnedColor(5) = 10
    /\ returned[5].lines = 3
    /\ returned[6].lines = 3

\* the 0-based index, counted from file i, of the input file that holds the
\* j-th sequence the reader yields (every sequence is yielded c times)
RECURSIVE FileOfSequence(_, _, _, _)
FileOfSequence(filenames, j, c, i) ==
    IF j < Len(filenames[i + 1]) * c THEN i
    ELSE FileOfSequence(filenames, j - Len(filenames[i + 1]) * c, c, i + 1)

\* number of sequences in the input files
RECURSIVE TotalSequences(_)
TotalSequences(filenames) ==
    IF filenames = <<>> THEN 0 ELSE Len(Head(filenames)) + TotalSequences(Tail(filenames))

\* C19: the j-th call of Unique_For_Each_File_Color_Stream.next(), for each of
\* the sequences the reader yields, returns the position in the input file
\* list of the file that holds the j-th sequence, file i accounting for
\* count_i consecutive calls (2*count_i with reverse complements); files
\* without sequences are skipped and the returned colors never decrease.
PerFileColors ==
    color_stream.kind = "Unique_For_Each_File_Color_Stream" =>
        \A j \in 0..(Len(returned) - 1) :
            j < TotalSequences(seqfiles) * CallsPerColor =>
                /\ ~returned[j + 1].threw
                /\ ~returned[j + 1].fault
                /\ ReturnedColor(j) = FileOfSequence(seqfiles, j, CallsPerColor, 0)
                /\ j > 0 => ReturnedColor(j - 1) <= ReturnedColor(j)

\* three files of which the second holds no sequence and the third holds two,
\* read with reverse complements: the last of six calls returned color 2
PerFileColorsWitness ==
    /\ color_stream.kind = "Unique_For_Each_File_Color_Stream"
    /\ color_stream.reverse_complements
    /\ Len(seqfiles) = 3
    /\ Len(seqfiles[1]) = 1
    /\ Len(seqfiles[2]) = 0
    /\ Len(seqfiles[3]) = 2
    /\ Len(returned) = 6
    /\ ReturnedColor(1) = 0
    /\ ReturnedColor(2) = 2
    /\ ReturnedColor(5) = 2

\* a call of Colorfile_Stream.next() on exhausted color files raises, and so
\* does every call after it
ExhaustedStreamRaises ==
    color_stream.kind = "Colorfile_Stream" =>
        /\ \A n \in 0..(Len(returned) - 1) :
              (n \div CallsPerColor) >= Len(ListedColors(colorfiles))
                  => returned[n + 1].threw
        /\ \A n, m \in 0..(Len(returned) - 1) :
              (n < m /\ returned[n + 1].threw) => returned[m + 1].threw

\* a build with fewer listed colors than sequences fails
FewerColorsFatal ==
    (/\ color_stream.kind = "Colorfile_Stream"
     /\ dispatch.status # "none"
     /\ Len(ListedColors(colorfiles)) < dispatch.sequences) => dispatch.status = "failed"

\* C20: when every color file is exhausted, a call of Colorfile_Stream.next()
\* that needs a new color raises, and so does every later one; a build whose
\* number of listed colors differs from its number of sequences does not
\* complete successfully.
ColorCountMismatchFatal ==
    /\ ExhaustedStreamRaises
    /\ (color_stream.kind = "Colorfile_Stream" /\ dispatch.status = "ok") =>
          Len(ListedColors(colorfiles)) = dispatch.sequences

\* the generic storage after the add_set calls the concatenated storage has
\* seen, and prepare_for_queries
GenericTwin ==
    Generic_prepare_for_queries(GenericAddSets(Generic_Storage_default, added, 1))

\* C21: after the same add_set calls followed by prepare_for_queries, the
\* generic per-set storage and the concatenated storage report the same
\* number_of_sets_stored() and return for every id a set with the same colors.
StorageEquivalence ==
    (prepare_calls = 1 /\ FrozenCount = Len(added)) =>
        /\ number_of_sets_stored(storage) = Generic_number_of_sets_stored(GenericTwin)
        /\ \A i \in 0..(number_of_sets_stored(storage) - 1) :
              colorset_get_colors_as_vector(get_color_set_by_id(storage, i))
                  = Opaque_get_colors_as_vector(Generic_get_color_set_by_id(GenericTwin, i))

\* both storages hold two different sets, the concatenated one as a bitmap
\* and an array
StorageEquivalenceWitness ==
    /\ prepare_calls = 1
    /\ FrozenCount = Len(added)
    /\ Len(added) = 2
    /\ added[1] # added[2]
    /\ storage.is_bitmap_marks[1] # storage.is_bitmap_marks[2]
    /\ Generic_number_of_sets_stored(GenericTwin) = 2

\* C22: a call of get_color_set_id, get_color_set_of_node or
\* get_color_set_of_node_as_vector with a node outside [0, N) is rejected and
\* never returns a color set.
OutOfRangeRejected ==
    q.status = "out_of_range" => q.outcome \in {"assertion failed", "thrown"}

\* with assertions enabled get_color_set_of_node_as_vector rejects the node
OutOfRangeAsserted ==
    (/\ q.status = "out_of_range"
     /\ q.accessor = "get_color_set_of_node_as_vector"
     /\ q.assertions) => q.outcome = "assertion failed"

\* add_set stores a vector as a bitmap when the cutoff test succeeds
StoredAsBitmap(V) == V # <<>> /\ DenseCutoff(max_element(V), Len(V))

\* the span a vector takes in its concatenation: max+1 bits or |V| elements
SpanOf(V) == IF StoredAsBitmap(V) THEN max_element(V) + 1 ELSE Len(V)

\* the vectors of one kind among the first n added ones, in order
KindVectors(bitmap, n) ==
    SelectSeq(SubSeq(added, 1, n), LAMBDA V : StoredAsBitmap(V) = bitmap)

\* the offsets at which the sets of a list begin, and the offset past the last
RECURSIVE StartsOf(_, _)
StartsOf(vecs, offset) ==
    IF vecs = <<>> THEN <<offset>>
    ELSE <<offset>> \o StartsOf(Tail(vecs), offset + SpanOf(Head(vecs)))

\* C23: after prepare_for_queries over B bitmap sets and A array sets,
\* bitmap_starts has B+1 entries and arrays_starts A+1 entries, entry j is the
\* offset at which the j-th set of that kind begins, and the last entries are
\* the lengths of bitmap_concat and arrays_concat, also when A = 0 or B = 0.
StartSentinels ==
    prepare_calls = 1 =>
        LET bitmaps == KindVectors(TRUE, FrozenCount)
            arrays == KindVectors(FALSE, FrozenCount)
        IN /\ Len(storage.bitmap_starts) = Len(bitmaps) + 1
           /\ Len(storage.arrays_starts) = Len(arrays) + 1
           /\ storage.bitmap_starts = StartsOf(bitmaps, 0)
           /\ storage.arrays_starts = StartsOf(arrays, 0)
           /\ storage.bitmap_starts[Len(bitmaps) + 1] = Len(storage.bitmap_concat)
           /\ storage.arrays_starts[Len(arrays) + 1] = Len(storage.arrays_concat)

\* a frozen storage of two bitmap sets and no array set
StartSentinelsWitness ==
    /\ prepare_calls = 1
    /\ FrozenCount = 2
    /\ Len(KindVectors(TRUE, FrozenCount)) = 2
    /\ storage.arrays_starts = <<0>>
    /\ Len(storage.bitmap_starts) = 3

\* a sequence of numbers in which every entry exceeds the one before it
StrictlyIncreasing(v) == \A i \in 1..(Len(v) - 1) : v[i] < v[i + 1]

\* C24: in every storage reached by add_set calls followed by
\* prepare_for_queries, bitmap_starts and arrays_starts are strictly
\* increasing: every stored set occupies a non-empty span.
StrictStarts ==
    prepare_calls = 1 =>
        /\ StrictlyIncreasing(storage.bitmap_starts)
        /\ StrictlyIncreasing(storage.arrays_starts)

\* the part of C24 the code keeps: the starts are strictly increasing when
\* every added vector holds a color
StrictStartsOfNonEmptySets ==
    (prepare_calls = 1 /\ \A i \in 1..FrozenCount : added[i] # <<>>) =>
        /\ StrictlyIncreasing(storage.bitmap_starts)
        /\ StrictlyIncreasing(storage.arrays_starts)

\* C25: after prepare_for_queries over n added sets, is_bitmap_marks has n
\* bits, bit i is 1 iff the i-th set was stored as a bitmap, the rank over all
\* n bits is the number B of bitmap sets, number_of_sets_stored() = n = A + B,
\* and get_color_set_by_id(i) is a bitmap view iff bit i is 1.
DiscriminatorConsistency ==
    prepare_calls = 1 =>
        LET n == FrozenCount
            B == Len(KindVectors(TRUE, n))
            A == Len(KindVectors(FALSE, n))
        IN /\ Len(storage.is_bitmap_marks) = n
           /\ \A i \in 0..(n - 1) :
                 /\ storage.is_bitmap_marks[i + 1] = 1 <=> StoredAsBitmap(added[i + 1])
                 /\ colorset_is_bitmap(get_color_set_by_id(storage, i))
                       <=> storage.is_bitmap_marks[i + 1] = 1
           /\ rank(storage.is_bitmap_marks_rs, n) = B
           /\ number_of_sets_stored(storage) = n
           /\ n = A + B

\* a frozen storage whose first set is an array and whose second is a bitmap
DiscriminatorConsistencyWitness ==
    /\ prepare_calls = 1
    /\ FrozenCount = 2
    /\ storage.is_bitmap_marks = <<0, 1>>
    /\ rank(storage.is_bitmap_marks_rs, 2) = 1
    /\ ~colorset_is_bitmap(get_color_set_by_id(storage, 0))
    /\ colorset_is_bitmap(get_color_set_by_id(storage, 1))

\* C26: after A.intersection(B), A is bitmap-typed iff both A and B were
\* bitmap-typed before the call: an array stays an array, and a bitmap
\* intersected with an array becomes an array.
RepresentationAfterIntersection ==
    last.op = "intersection" =>
        (colorset_is_bitmap(owned) <=> (last.Abm /\ last.Bbm))

\* a bitmap-typed set that shares a color with an array-typed set has been
\* intersected with it
RepresentationAfterIntersectionWitness ==
    /\ last.op = "intersection"
    /\ last.Abm
    /\ ~last.Bbm
    /\ last.A0 \cap last.B # {}
    /\ ~colorset_is_bitmap(owned)

\* empty() agrees with size() and with get_colors_as_vector() on one set
EmptinessAgrees(cs) ==
    /\ colorset_is_empty(cs) <=> colorset_size(cs) = 0
    /\ colorset_is_empty(cs) <=> colorset_get_colors_as_vector(cs) = <<>>

\* C29: for every Color_Set and Color_Set_View reached by construction,
\* intersection and union, in either representation, empty() is true iff
\* size() = 0, i.e. iff get_colors_as_vector() is empty, also for a bitmap
\* left with no bit set by an intersection.
EmptinessAgreesWithSize ==
    /\ EmptinessAgrees(owned)
    /\ \A id \in StoredIds : EmptinessAgrees(get_color_set_by_id(storage, id))

\* the part of C29 the code keeps: the views of the storage and the
\* array-typed owned sets
EmptinessOfViewsAndArrays ==
    /\ ~colorset_is_bitmap(owned) => EmptinessAgrees(owned)
    /\ \A id \in StoredIds : EmptinessAgrees(get_color_set_by_id(storage, id))

\* C27: after any run of calls A.intersection(B1), ..., A.intersection(Bk) on
\* an owned set with contents A0, also with copies of A in between,
\* A.get_colors_as_vector() equals sorted(A0 \cap B1 \cap ... \cap Bk): entries
\* left in the backing container past the logical length are never read back,
\* also after A switched from bitmap to array.
RepeatedIntersection ==
    last.op \in {"intersection", "assign"} =>
        colorset_get_colors_as_vector(owned) = SortedSeq(last.chain)

\* the part of C27 the code keeps in every run: an intersection that leaves
\* the representation as it was does not increase the logical length
LengthNeverIncreases ==
    [][(/\ last'.op = "intersection"
        /\ last' # last
        /\ colorset_is_bitmap(owned') = colorset_is_bitmap(owned)) =>
           owned'.length <= owned.length]_vars

\* the part of C27 the code keeps: runs of intersections in which no B is an
\* array-typed view that begins past the start of arrays_concat while A is a
\* bitmap
RepeatedIntersectionFromStart ==
    [][(/\ last.op \in {"construct", "copy", "union", "intersection", "assign"}
        /\ last'.op = "intersection"
        /\ last' # last
        /\ colorset_get_colors_as_vector(owned) = SortedSeq(last.chain)
        /\ ~(last'.Abm /\ ~last'.Bbm /\ last'.Bstart > 0)) =>
           colorset_get_colors_as_vector(owned') = SortedSeq(last'.chain)]_vars

\* C28: the node-to-color-set-id map is read with get(node) only at a node
\* whose has_index(node) is true: get_color_set_id, the one operation of the
\* Coloring that reads the map, leaves its loop and reads only where
\* is_core_kmer holds.
NoLookupWithoutEntry ==
    [][(/\ q.status = "running"
        /\ q' # q
        /\ get_color_set_id_step(Target(q.loaded), index, q.node).kind = "return") =>
           has_index(Target(q.loaded).node_id_to_color_set_id, q.node)]_vars

\* a traversal that began at a node without entry, followed an edge and read
\* the map at a node with an entry
NoLookupWithoutEntryWitness ==
    /\ q.status = "returned"
    /\ q.iterations > 0
    /\ ~has_index(Target(q.loaded).node_id_to_color_set_id, q.node0)
    /\ has_index(Target(q.loaded).node_id_to_color_set_id, q.node)

\* C30: when load_coloring fails, by an unknown tag or because no candidate
\* matched, the caller's variant holds an empty Coloring of the last attempted
\* type, whatever it held when load_coloring was entered.
FailedLoadOutput ==
    ld.outcome = "runtime_error" =>
        /\ ld.attempts # <<>>
        /\ ld.coloring = Coloring_default(ld.attempts[Len(ld.attempts)].T)
        /\ (ld.passed # Coloring_default(ld.attempts[Len(ld.attempts)].T) =>
               ld.coloring # ld.passed)

\* a failed load into a variant that held the Coloring that was built
FailedLoadOutputWitness ==
    /\ ld.outcome = "runtime_error"
    /\ ld.passed = built
    /\ ld.passed # Coloring_default(built.T)
    /\ ld.coloring # ld.passed

\* the other way to fail: every candidate was tried and none matched
NoCandidateMatchedWitness ==
    /\ ld.outcome = "runtime_error"
    /\ Len(ld.attempts) = Len(Candidates2)
    /\ ld.coloring = Coloring_default("Roaring_Color_Set")

====
